---- MODULE Spec2Model ----
(***************************************************************************)
(* A model of blade's Vulkan backend (blade-graphics/src/vulkan/mod.rs):   *)
(* the queue and its timeline semaphore (Context::submit,                  *)
(* Context::wait_for), Context::init and the memory-type validity mask.    *)
(***************************************************************************)
EXTENDS Integers, Sequences, FiniteSets, TLC

\* ------------------------------------------------------------------ bounds
NumThreads == 2
MaxSubmits == 2
MaxTimeoutMs == 1
MaxDevices == 2
MaxMemTypes == 2

Threads == 1 .. NumThreads
NoThread == 0

VARIABLES
    \* struct Queue (behind Context.queue: Mutex<Queue>)
    last_progress,      \* Queue.last_progress
    queue_lock,         \* the thread holding the queue mutex, or NoThread
    queue_poisoned,     \* a thread panicked while holding the queue mutex
    \* the native side: the queue, the timeline semaphore, the device
    native_queue,       \* signal values handed to queue_submit, in order
    executed,           \* how many entries of native_queue the device has run
    semaphore_value,    \* the timeline semaphore's counter
    device_lost,
    \* the calling threads
    pc,                 \* each thread's position
    progress,           \* submit's local `progress`
    sp,                 \* wait_for's argument sp.progress
    timeout_ns,         \* what is left of the native wait's timeout
    vk_result,          \* what wait_semaphores returned
    submissions,        \* history: submit calls in the order they took the lock
    \* Context::init
    init_pc,            \* the step init is at
    init_result,        \* "pending", "Ok", "NotSupportedError" or "panic"
    failed_step,        \* the step that failed, or "none"
    calls,              \* history: the fallible native calls made, in order
    created,            \* the native objects created so far
    supported_instance_extensions,
    is_vulkan_portability,
    instance_extensions,
    create_flags,
    physical_devices,   \* what enumerate_physical_devices returned
    inspected,          \* history: the devices given to inspect_adapter, in order
    physical_device,    \* the index of the selected device, 0 while none
    device_extensions,
    memory_types,       \* the selected device's memory types
    valid_ash_memory_types,
    \* command encoders
    native,             \* the native objects made for encoders, in creation order
    encoders,           \* the CommandEncoder values returned, in creation order
    enc_pc,             \* the step create/destroy_command_encoder is at
    enc_local,          \* the locals of the running create/destroy call
    released,           \* history: the native objects released, in order
    \* MemoryManager (behind Context.memory: Mutex<MemoryManager>)
    slab,               \* MemoryManager.slab: the block at each index, or Vacant
    live_blocks,        \* the blocks allocated and not yet given back
    blocks_made,        \* how many blocks the sub-allocator has returned
    issued,             \* history: every (handle, block) returned to a caller
    mem_last,           \* the latest allocate / free call and its outcome
    mem_state,          \* "ready", or "panic" after a fatal call
    \* the descriptor-set layout being created
    layout_pc,          \* "idle", "bindings" or "created"
    layout_bindings,    \* the declared sizes of the bindings, in order
    update_offset,      \* the running offset into the flat update buffer
    template_offsets,   \* DescriptorSetLayout.template_offsets
    template_size,      \* DescriptorSetLayout.template_size
    \* the SyncPoint values in the callers' hands
    sync_points,        \* every SyncPoint submit returned: its holder and its waits
    signalled,          \* the progress value the timeline semaphore has reached
    \* Engine (src/lib.rs)
    time_step,          \* physics.integration_params.dt
    time_ahead,         \* Engine.time_ahead
    update_pc,          \* "new", "loop" (inside update) or "returned"
    update_dt,          \* the dt of the running or latest update call
    time_ahead_before,  \* history: time_ahead when that call was entered
    steps,              \* history: the Physics::step calls of that call
    exact,              \* history: no operation of that call was rounded
    \* map_timeout on full-width values
    timeout_calls,      \* history: the latest two calls, argument and result
    \* format and range mapping
    aspects_call,       \* history: the latest call of map_aspects
    range_call,         \* history: the latest call of map_subresource_range
    \* the two locks of the Context
    lock_pc,            \* per thread: its position in an operation that locks
    memory_lock,        \* the holder of Context.memory, or NoThread
    memory_poisoned,    \* a thread panicked while holding Context.memory
    \* Engine::render
    need_accumulation_reset,
    track_hot_reloads,
    load_tasks,         \* the number of entries of Engine.load_tasks
    screen_size,        \* renderer.get_screen_size()
    surface_size,       \* the size the surface of gpu_context is configured with
    new_render_size,    \* the local of render
    render_pc,          \* the position inside render, "idle" between calls
    frame_log,          \* history: the calls made by the latest render, in order
    prepare_reset,      \* history: what the latest render passed to prepare
    reset_deferred      \* history: a render skipped the scene with the flag set

syncVars == << last_progress, queue_lock, queue_poisoned, native_queue, executed,
               semaphore_value, device_lost, pc, progress, sp, timeout_ns,
               vk_result, submissions >>

bootVars == << init_pc, init_result, failed_step, calls, created,
               supported_instance_extensions, is_vulkan_portability,
               instance_extensions, create_flags, physical_devices, inspected,
               physical_device, device_extensions, memory_types,
               valid_ash_memory_types >>

encoderVars == << native, encoders, enc_pc, enc_local, released >>

slabVars == << slab, live_blocks, blocks_made, issued, mem_last, mem_state >>

layoutVars == << layout_pc, layout_bindings, update_offset, template_offsets,
                 template_size >>

syncPointVars == << sync_points, signalled >>

engineVars == << time_step, time_ahead, update_pc, update_dt, time_ahead_before,
                 steps, exact >>

timeoutVars == << timeout_calls >>

formatVars == << aspects_call, range_call >>

lockVars == << lock_pc, memory_lock, memory_poisoned >>

renderVars == << need_accumulation_reset, track_hot_reloads, load_tasks,
                 screen_size, surface_size, new_render_size, render_pc, frame_log,
                 prepare_reset, reset_deferred >>

otherVars == << encoderVars, slabVars, layoutVars, syncPointVars, engineVars,
               timeoutVars, formatVars, lockVars, renderVars >>

vars == << syncVars, bootVars, otherVars >>

\* what the actions of one part leave alone
notEncoderVars == << syncVars, bootVars, slabVars, layoutVars, syncPointVars, engineVars,
    timeoutVars, formatVars, lockVars, renderVars >>
notSlabVars == << syncVars, bootVars, encoderVars, layoutVars, syncPointVars, engineVars,
    timeoutVars, formatVars, lockVars, renderVars >>
notLayoutVars == << syncVars, bootVars, encoderVars, slabVars, syncPointVars, engineVars,
    timeoutVars, formatVars, lockVars, renderVars >>
notSyncPointVars == << syncVars, bootVars, encoderVars, slabVars, layoutVars, engineVars,
    timeoutVars, formatVars, lockVars, renderVars >>
notEngineVars == << syncVars, bootVars, encoderVars, slabVars, layoutVars, syncPointVars,
    timeoutVars, formatVars, lockVars, renderVars >>
notFormatVars == << syncVars, bootVars, encoderVars, slabVars, layoutVars,
    syncPointVars, engineVars, timeoutVars, lockVars, renderVars >>
notLockVars == << bootVars, encoderVars, slabVars, layoutVars, syncPointVars,
    engineVars, timeoutVars, formatVars, renderVars >>
notRenderVars == << syncVars, bootVars, encoderVars, slabVars, layoutVars,
    syncPointVars, engineVars, timeoutVars, formatVars, lockVars >>
notTimeoutVars == << syncVars, bootVars, encoderVars, slabVars, layoutVars,
    syncPointVars, engineVars, formatVars, lockVars, renderVars >>

queueVars == << last_progress, queue_lock, queue_poisoned >>
nativeVars == << native_queue, executed, semaphore_value, device_lost >>
waitVars == << sp, timeout_ns, vk_result >>

\* ------------------------------------------------------------ pure helpers

\* fn map_timeout(millis: u32) -> u64: millis as u64 * 1_000_000; the widening
\* comes first, and (2^32 - 1) * 10^6 < 2^64, so the product never wraps
map_timeout(millis) == millis * 1000000

\* mutant: VK_TIMEOUT, a non-error status code, taken for success
is_ok_TimeoutIsSuccess(result) == result \in {"SUCCESS", "TIMEOUT"}

\* mutant: is_err() in place of is_ok()
is_ok_Inverted(result) == result # "SUCCESS"

\* VkResult::result().is_ok(): only VK_SUCCESS is Ok
is_ok(result) == result = "SUCCESS"

\* vkWaitSemaphores on one timeline semaphore, as seen when it returns
wait_semaphores(value, wanted, left_ns, lost) ==
    IF value >= wanted THEN "SUCCESS"
    ELSE IF lost THEN "ERROR_DEVICE_LOST"
    ELSE IF left_ns = 0 THEN "TIMEOUT"
    ELSE "BLOCKED"

\* the index in `submissions` of thread t's latest submit call
SlotOf(t) ==
    CHOOSE i \in DOMAIN submissions :
        /\ submissions[i].thread = t
        /\ \A j \in DOMAIN submissions : submissions[j].thread = t => j <= i

\* ------------------------------------------------------- Context after init

\* Context::init: last_progress = 0, the timeline semaphore starts at 0
QueueInit ==
    /\ last_progress = 0
    /\ queue_lock = NoThread
    /\ queue_poisoned = FALSE
    /\ native_queue = << >>
    /\ executed = 0
    /\ semaphore_value = 0
    /\ device_lost = FALSE
    /\ pc = [t \in Threads |-> "idle"]
    /\ progress = [t \in Threads |-> 0]
    /\ sp = [t \in Threads |-> 0]
    /\ timeout_ns = [t \in Threads |-> 0]
    /\ vk_result = [t \in Threads |-> "NONE"]
    /\ submissions = << >>

\* ------------------------------------------------------------ Context::submit

\* a thread calls submit: encoder.finish(), then it is about to take the lock
SubmitCall(t) ==
    /\ pc[t] = "idle"
    /\ Len(submissions) + Cardinality({u \in Threads : pc[u] = "s_lock"}) < MaxSubmits
    /\ pc' = [pc EXCEPT ![t] = "s_lock"]
    /\ UNCHANGED << queueVars, nativeVars, progress, waitVars, submissions >>
    /\ UNCHANGED << bootVars, otherVars >>

\* mutant: submit enters its critical section without waiting for the mutex
SubmitLock_NoMutex(t) ==
    /\ pc[t] = "s_lock"
    /\ pc' = [pc EXCEPT ![t] = "s_inc"]
    /\ queue_lock' = t
    /\ submissions' = Append(submissions, [thread |-> t, progress |-> 0])
    /\ UNCHANGED << last_progress, queue_poisoned, nativeVars, progress, waitVars >>
    /\ UNCHANGED << bootVars, otherVars >>

\* mutant: the guard is a temporary, dropped before last_progress is touched
SubmitLock_GuardDropped(t) ==
    /\ pc[t] = "s_lock"
    /\ queue_lock = NoThread
    /\ pc' = [pc EXCEPT ![t] = "s_inc"]
    /\ submissions' = Append(submissions, [thread |-> t, progress |-> 0])
    /\ UNCHANGED << queueVars, nativeVars, progress, waitVars >>
    /\ UNCHANGED << bootVars, otherVars >>

\* self.queue.lock().unwrap(): blocks while the mutex is held; a poisoned mutex
\* makes unwrap panic, which drops the guard again
SubmitLock(t) ==
    /\ pc[t] = "s_lock"
    /\ queue_lock = NoThread
    /\ IF queue_poisoned
       THEN /\ pc' = [pc EXCEPT ![t] = "panicked"]
            /\ UNCHANGED << queue_lock, submissions >>
       ELSE /\ pc' = [pc EXCEPT ![t] = "s_inc"]
            /\ queue_lock' = t
            /\ submissions' = Append(submissions, [thread |-> t, progress |-> 0])
    /\ UNCHANGED << last_progress, queue_poisoned, nativeVars, progress, waitVars >>
    /\ UNCHANGED << bootVars, otherVars >>

\* mutant: last_progress is advanced by two
SubmitIncrement_ByTwo(t) ==
    /\ pc[t] = "s_inc"
    /\ last_progress' = last_progress + 2
    /\ pc' = [pc EXCEPT ![t] = "s_read"]
    /\ UNCHANGED << queue_lock, queue_poisoned, nativeVars, progress, waitVars,
                    submissions >>
    /\ UNCHANGED << bootVars, otherVars >>

\* queue.last_progress += 1 (a u64: MaxSubmits keeps it far from 2^64)
SubmitIncrement(t) ==
    /\ pc[t] = "s_inc"
    /\ last_progress' = last_progress + 1
    /\ pc' = [pc EXCEPT ![t] = "s_read"]
    /\ UNCHANGED << queue_lock, queue_poisoned, nativeVars, progress, waitVars,
                    submissions >>
    /\ UNCHANGED << bootVars, otherVars >>

\* mutant: the guard is dropped once progress is read, before queue_submit
SubmitRead_GuardDropped(t) ==
    /\ pc[t] = "s_read"
    /\ progress' = [progress EXCEPT ![t] = last_progress]
    /\ pc' = [pc EXCEPT ![t] = "s_submit"]
    /\ queue_lock' = NoThread
    /\ UNCHANGED << last_progress, queue_poisoned, nativeVars, waitVars,
                    submissions >>
    /\ UNCHANGED << bootVars, otherVars >>

\* let progress = queue.last_progress
SubmitRead(t) ==
    /\ pc[t] = "s_read"
    /\ progress' = [progress EXCEPT ![t] = last_progress]
    /\ pc' = [pc EXCEPT ![t] = "s_submit"]
    /\ UNCHANGED << queueVars, nativeVars, waitVars, submissions >>
    /\ UNCHANGED << bootVars, otherVars >>

\* device.queue_submit(queue.raw, [signal timeline_semaphore to progress]).unwrap()
\* Ok hands the command buffer to the native queue; Err panics under the lock,
\* which poisons the mutex as the guard is dropped
SubmitQueueSubmit(t) ==
    /\ pc[t] = "s_submit"
    /\ \E ok \in BOOLEAN :
        /\ device_lost => ~ok
        /\ IF ok
           THEN /\ native_queue' = Append(native_queue, progress[t])
                /\ pc' = [pc EXCEPT ![t] = "s_return"]
                /\ UNCHANGED << queue_lock, queue_poisoned, progress >>
           ELSE /\ pc' = [pc EXCEPT ![t] = "panicked"]
                /\ queue_lock' = NoThread
                /\ queue_poisoned' = TRUE
                /\ progress' = [progress EXCEPT ![t] = 0]
                /\ UNCHANGED native_queue
    /\ UNCHANGED << last_progress, executed, semaphore_value, device_lost,
                    waitVars, submissions >>
    /\ UNCHANGED << bootVars, otherVars >>

\* SyncPoint { progress }: the guard is dropped as submit returns
SubmitReturn(t) ==
    /\ pc[t] = "s_return"
    /\ queue_lock' = NoThread
    /\ submissions' = [submissions EXCEPT ![SlotOf(t)].progress = progress[t]]
    /\ pc' = [pc EXCEPT ![t] = "s_done"]
    /\ UNCHANGED << last_progress, queue_poisoned, nativeVars, progress, waitVars >>
    /\ UNCHANGED << bootVars, otherVars >>

\* ---------------------------------------------------------- Context::wait_for

\* a thread calls wait_for(sp, timeout_ms); the model draws the arguments where
\* the code first reads them
WaitForCall(t) ==
    /\ pc[t] = "idle"
    /\ pc' = [pc EXCEPT ![t] = "w_lock"]
    /\ UNCHANGED << queueVars, nativeVars, progress, waitVars, submissions >>
    /\ UNCHANGED << bootVars, otherVars >>

\* self.queue.lock().unwrap()
WaitForLock(t) ==
    /\ pc[t] = "w_lock"
    /\ queue_lock = NoThread
    /\ IF queue_poisoned
       THEN /\ pc' = [pc EXCEPT ![t] = "panicked"]
            /\ UNCHANGED queue_lock
       ELSE /\ pc' = [pc EXCEPT ![t] = "w_fetch"]
            /\ queue_lock' = t
    /\ UNCHANGED << last_progress, queue_poisoned, nativeVars, progress,
                    waitVars, submissions >>
    /\ UNCHANGED << bootVars, otherVars >>

\* mutant: the guard is bound to a variable and lives across the native wait
WaitForFetch_KeepGuard(t) ==
    /\ pc[t] = "w_fetch"
    /\ \E p \in 1 .. MaxSubmits, ms \in 0 .. MaxTimeoutMs :
        /\ sp' = [sp EXCEPT ![t] = p]
        /\ timeout_ns' = [timeout_ns EXCEPT ![t] = map_timeout(ms)]
    /\ pc' = [pc EXCEPT ![t] = "w_native"]
    /\ UNCHANGED << queueVars, nativeVars, progress, vk_result, submissions >>
    /\ UNCHANGED << bootVars, otherVars >>

\* let timeline_semaphore = <guard>.timeline_semaphore; the temporary guard is
\* dropped at the end of the statement; then semaphore_values = [sp.progress]
\* and timeout_ns = map_timeout(timeout_ms)
WaitForFetch(t) ==
    /\ pc[t] = "w_fetch"
    /\ queue_lock' = NoThread
    /\ \E p \in 1 .. MaxSubmits, ms \in 0 .. MaxTimeoutMs :
        /\ sp' = [sp EXCEPT ![t] = p]
        /\ timeout_ns' = [timeout_ns EXCEPT ![t] = map_timeout(ms)]
    /\ pc' = [pc EXCEPT ![t] = "w_native"]
    /\ UNCHANGED << last_progress, queue_poisoned, nativeVars, progress,
                    vk_result, submissions >>
    /\ UNCHANGED << bootVars, otherVars >>

\* a millisecond passes for a thread blocked in wait_semaphores
WaitForBlocked(t) ==
    /\ pc[t] = "w_native"
    /\ wait_semaphores(semaphore_value, sp[t], timeout_ns[t], device_lost) = "BLOCKED"
    /\ timeout_ns' = [timeout_ns EXCEPT ![t] = timeout_ns[t] - 1000000]
    /\ UNCHANGED << queueVars, nativeVars, pc, progress, sp, vk_result,
                    submissions >>
    /\ UNCHANGED << bootVars, otherVars >>

\* wait_semaphores(&wait_info, timeout_ns) returns
WaitForNative(t) ==
    /\ pc[t] = "w_native"
    /\ LET r == wait_semaphores(semaphore_value, sp[t], timeout_ns[t], device_lost)
       IN  /\ r # "BLOCKED"
           /\ vk_result' = [vk_result EXCEPT ![t] = r]
    /\ timeout_ns' = [timeout_ns EXCEPT ![t] = 0]
    /\ pc' = [pc EXCEPT ![t] = "w_done"]
    /\ UNCHANGED << queueVars, nativeVars, progress, sp, submissions >>
    /\ UNCHANGED << bootVars, otherVars >>

\* what wait_for has returned to a thread at "w_done": <result>.is_ok()
WaitForResult(t) == is_ok(vk_result[t])

\* the caller has the returned value and goes on
Return(t) ==
    /\ pc[t] \in {"s_done", "w_done"}
    /\ pc' = [pc EXCEPT ![t] = "idle"]
    /\ progress' = [progress EXCEPT ![t] = 0]
    /\ sp' = [sp EXCEPT ![t] = 0]
    /\ vk_result' = [vk_result EXCEPT ![t] = "NONE"]
    /\ UNCHANGED << queueVars, nativeVars, timeout_ns, submissions >>
    /\ UNCHANGED << bootVars, otherVars >>

\* ------------------------------------------------------------------ the device

\* the device runs the next submission and signals the timeline semaphore
DeviceExecute ==
    /\ ~device_lost
    /\ executed < Len(native_queue)
    /\ executed' = executed + 1
    /\ semaphore_value' = native_queue[executed + 1]
    /\ UNCHANGED << queueVars, native_queue, device_lost, pc, progress, waitVars,
                    submissions >>
    /\ UNCHANGED << bootVars, otherVars >>

DeviceLoss ==
    /\ ~device_lost
    /\ device_lost' = TRUE
    /\ UNCHANGED << queueVars, native_queue, executed, semaphore_value, pc,
                    progress, waitVars, submissions >>
    /\ UNCHANGED << bootVars, otherVars >>

\* -------------------------------------------------------------- Context::init

\* crate::limits::PLAIN_DATA_SIZE
PLAIN_DATA_SIZE == 256

DEBUG_UTILS == "VK_EXT_debug_utils"
GET_PHYSICAL_DEVICE_PROPERTIES2 == "VK_KHR_get_physical_device_properties2"
PORTABILITY_ENUMERATION == "VK_KHR_portability_enumeration"
PORTABILITY_SUBSET == "VK_KHR_portability_subset"

\* the instance extensions a driver may report
InstanceExtensionNames ==
    {DEBUG_UTILS, GET_PHYSICAL_DEVICE_PROPERTIES2, PORTABILITY_ENUMERATION}

\* let mut instance_extensions = vec![DebugUtils::name(), KhrGetPhysicalDeviceProperties2Fn::name()]
RequiredInstanceExtensions == << DEBUG_UTILS, GET_PHYSICAL_DEVICE_PROPERTIES2 >>

\* let mut device_extensions = vec![...]
RequiredDeviceExtensions ==
    {"VK_EXT_inline_uniform_block", "VK_KHR_timeline_semaphore",
     "VK_KHR_descriptor_update_template"}

\* what inspect_adapter reads of a physical device: two properties and two
\* feature flags (VkBool32)
PhysicalDevices ==
    [max_inline_uniform_block_size : {PLAIN_DATA_SIZE - 1, PLAIN_DATA_SIZE},
     max_descriptor_set_inline_uniform_blocks : {0, 1},
     inline_uniform_block : {0, 1},
     timeline_semaphore : {0, 1}]

\* the sequences over S of length at most n
SeqsUpTo(S, n) == UNION {[1 .. k -> S] : k \in 0 .. n}

\* mutant: the inline-uniform-block gate is left out
inspect_adapter_NoInlineGate(phd) ==
    phd.timeline_semaphore # 0

\* mutant: the timeline-semaphore gate is left out
inspect_adapter_NoTimelineGate(phd) ==
    ~(\/ phd.max_inline_uniform_block_size < PLAIN_DATA_SIZE
      \/ phd.max_descriptor_set_inline_uniform_blocks = 0
      \/ phd.inline_uniform_block = 0)

\* unsafe fn inspect_adapter(..) -> Option<AdapterCapabilities>: TRUE for Some
inspect_adapter(phd) ==
    IF \/ phd.max_inline_uniform_block_size < PLAIN_DATA_SIZE
       \/ phd.max_descriptor_set_inline_uniform_blocks = 0
       \/ phd.inline_uniform_block = 0
    THEN FALSE
    ELSE IF phd.timeline_semaphore = 0
    THEN FALSE
    ELSE TRUE

\* vk::MemoryPropertyFlags as the set of its bit positions: DEVICE_LOCAL 0,
\* HOST_VISIBLE 1, HOST_COHERENT 2, HOST_CACHED 3, LAZILY_ALLOCATED 4 and, not
\* among the known ones, PROTECTED 5
MemoryPropertyFlagBits == 0 .. 5
MemoryPropertyFlags == SUBSET MemoryPropertyFlagBits

\* let known_memory_flags = DEVICE_LOCAL | HOST_VISIBLE | HOST_COHERENT
\*                          | HOST_CACHED | LAZILY_ALLOCATED
known_memory_flags == 0 .. 4

\* mutant: Flags::intersects in place of Flags::contains
flags_contains_Intersects(self, other) == self \cap other # {}

\* bitflags Flags::contains: (self & other) == other
flags_contains(self, other) == self \cap other = other

\* u | (1 << i) on a u32
BitOr(u, i) == IF (u \div (2 ^ i)) % 2 = 1 THEN u ELSE u + 2 ^ i

RECURSIVE FoldValidTypes(_, _, _)
\* memory_types.iter().enumerate().fold(0, |u, (i, mem)| ..), from item i on
FoldValidTypes(types, i, u) ==
    IF i >= Len(types) THEN u
    ELSE FoldValidTypes(types, i + 1,
            IF flags_contains(known_memory_flags, types[i + 1])
            THEN BitOr(u, i)
            ELSE u)

\* let valid_ash_memory_types = ..
ValidAshMemoryTypes(types) == FoldValidTypes(types, 0, 0)

Called(call) == \E i \in DOMAIN calls : calls[i] = call

\* init is entered: nothing has been called or created
BootInit ==
    /\ init_pc = "load_entry"
    /\ init_result = "pending"
    /\ failed_step = "none"
    /\ calls = << >>
    /\ created = {}
    /\ supported_instance_extensions = {}
    /\ is_vulkan_portability = FALSE
    /\ instance_extensions = << >>
    /\ create_flags = {}
    /\ physical_devices = << >>
    /\ inspected = << >>
    /\ physical_device = 0
    /\ device_extensions = {}
    /\ memory_types = << >>
    /\ valid_ash_memory_types = 0

\* return Err(NotSupportedError) at a step
ReturnNotSupported(step) ==
    /\ init_pc' = "done"
    /\ init_result' = "NotSupportedError"
    /\ failed_step' = step

\* .unwrap() on an Err: init panics
Panic(step) ==
    /\ init_pc' = "done"
    /\ init_result' = "panic"
    /\ failed_step' = step

Proceed(step) ==
    /\ init_pc' = step
    /\ UNCHANGED << init_result, failed_step >>

\* ash::Entry::load()
LoadEntry ==
    /\ init_pc = "load_entry"
    /\ calls' = Append(calls, "Entry::load")
    /\ \E ok \in BOOLEAN :
        IF ok
        THEN /\ Proceed("instance_version")
             /\ created' = created \cup {"entry"}
        ELSE /\ ReturnNotSupported("Entry::load")
             /\ UNCHANGED created
    /\ UNCHANGED << supported_instance_extensions, is_vulkan_portability,
                    instance_extensions, create_flags, physical_devices,
                    inspected, physical_device, device_extensions, memory_types,
                    valid_ash_memory_types, syncVars, otherVars >>

\* entry.try_enumerate_instance_version(): Ok(Some(version)), Ok(None) or Err
EnumerateInstanceVersion ==
    /\ init_pc = "instance_version"
    /\ calls' = Append(calls, "try_enumerate_instance_version")
    /\ \E outcome \in {"Some", "None", "Err"} :
        IF outcome = "Some"
        THEN Proceed("instance_layers")
        ELSE ReturnNotSupported("try_enumerate_instance_version")
    /\ UNCHANGED << created, supported_instance_extensions,
                    is_vulkan_portability, instance_extensions, create_flags,
                    physical_devices, inspected, physical_device,
                    device_extensions, memory_types, valid_ash_memory_types,
                    syncVars, otherVars >>

\* mutant: a failed layer enumeration is taken for an empty list of layers
EnumerateInstanceLayers_IgnoreError ==
    /\ init_pc = "instance_layers"
    /\ calls' = Append(calls, "enumerate_instance_layer_properties")
    /\ \E ok \in BOOLEAN :
        /\ init_pc' = "instance_extensions"
        /\ init_result' = init_result
        /\ failed_step' = IF ok THEN failed_step
                          ELSE "enumerate_instance_layer_properties"
    /\ UNCHANGED << created, supported_instance_extensions,
                    is_vulkan_portability, instance_extensions, create_flags,
                    physical_devices, inspected, physical_device,
                    device_extensions, memory_types, valid_ash_memory_types,
                    syncVars, otherVars >>

\* entry.enumerate_instance_layer_properties()
EnumerateInstanceLayers ==
    /\ init_pc = "instance_layers"
    /\ calls' = Append(calls, "enumerate_instance_layer_properties")
    /\ \E ok \in BOOLEAN :
        IF ok
        THEN Proceed("instance_extensions")
        ELSE ReturnNotSupported("enumerate_instance_layer_properties")
    /\ UNCHANGED << created, supported_instance_extensions,
                    is_vulkan_portability, instance_extensions, create_flags,
                    physical_devices, inspected, physical_device,
                    device_extensions, memory_types, valid_ash_memory_types,
                    syncVars, otherVars >>

\* entry.enumerate_instance_extension_properties(None), and
\* is_vulkan_portability = supported_instance_extensions.contains(portability)
EnumerateInstanceExtensions ==
    /\ init_pc = "instance_extensions"
    /\ calls' = Append(calls, "enumerate_instance_extension_properties")
    /\ \/ \E supported \in SUBSET InstanceExtensionNames :
            /\ supported_instance_extensions' = supported
            /\ is_vulkan_portability' = (PORTABILITY_ENUMERATION \in supported)
            /\ Proceed("check_extensions")
       \/ /\ ReturnNotSupported("enumerate_instance_extension_properties")
          /\ UNCHANGED << supported_instance_extensions, is_vulkan_portability >>
    /\ UNCHANGED << created, instance_extensions, create_flags, physical_devices,
                    inspected, physical_device, device_extensions, memory_types,
                    valid_ash_memory_types, syncVars, otherVars >>

\* mutant: only the first required extension is looked for
CheckInstanceExtensions_FirstOnly ==
    /\ init_pc = "check_extensions"
    /\ IF RequiredInstanceExtensions[1] \notin supported_instance_extensions
       THEN /\ ReturnNotSupported("required_instance_extension")
            /\ UNCHANGED << instance_extensions, create_flags >>
       ELSE /\ Proceed("create_instance")
            /\ instance_extensions' = RequiredInstanceExtensions
            /\ create_flags' = {}
    /\ UNCHANGED << calls, created, supported_instance_extensions,
                    is_vulkan_portability, physical_devices, inspected,
                    physical_device, device_extensions, memory_types,
                    valid_ash_memory_types, syncVars, otherVars >>

\* for inst_ext in instance_extensions.iter() { if !supported.contains(..) {
\* return Err } }; if is_vulkan_portability { push; create_flags |= .. }
CheckInstanceExtensions ==
    /\ init_pc = "check_extensions"
    /\ IF \E i \in DOMAIN RequiredInstanceExtensions :
            RequiredInstanceExtensions[i] \notin supported_instance_extensions
       THEN /\ ReturnNotSupported("required_instance_extension")
            /\ UNCHANGED << instance_extensions, create_flags >>
       ELSE /\ Proceed("create_instance")
            /\ instance_extensions' =
                IF is_vulkan_portability
                THEN Append(RequiredInstanceExtensions, PORTABILITY_ENUMERATION)
                ELSE RequiredInstanceExtensions
            /\ create_flags' =
                IF is_vulkan_portability THEN {"ENUMERATE_PORTABILITY_KHR"} ELSE {}
    /\ UNCHANGED << calls, created, supported_instance_extensions,
                    is_vulkan_portability, physical_devices, inspected,
                    physical_device, device_extensions, memory_types,
                    valid_ash_memory_types, syncVars, otherVars >>

\* entry.create_instance(&create_info, None).unwrap()
CreateInstance ==
    /\ init_pc = "create_instance"
    /\ calls' = Append(calls, "create_instance")
    /\ \E ok \in BOOLEAN :
        IF ok
        THEN /\ Proceed("enumerate_physical_devices")
             /\ created' = created \cup {"instance"}
        ELSE /\ Panic("create_instance")
             /\ UNCHANGED created
    /\ UNCHANGED << supported_instance_extensions, is_vulkan_portability,
                    instance_extensions, create_flags, physical_devices,
                    inspected, physical_device, device_extensions, memory_types,
                    valid_ash_memory_types, syncVars, otherVars >>

\* instance.enumerate_physical_devices().unwrap()
EnumeratePhysicalDevices ==
    /\ init_pc = "enumerate_physical_devices"
    /\ calls' = Append(calls, "enumerate_physical_devices")
    /\ \/ \E devices \in SeqsUpTo(PhysicalDevices, MaxDevices) :
            /\ physical_devices' = devices
            /\ Proceed("find_adapter")
       \/ /\ Panic("enumerate_physical_devices")
          /\ UNCHANGED physical_devices
    /\ UNCHANGED << created, supported_instance_extensions,
                    is_vulkan_portability, instance_extensions, create_flags,
                    inspected, physical_device, device_extensions, memory_types,
                    valid_ash_memory_types, syncVars, otherVars >>

\* mutant: every device is inspected and the last one that passes is taken
FindAdapter_LastMatch ==
    /\ init_pc = "find_adapter"
    /\ IF Len(inspected) = Len(physical_devices)
       THEN /\ IF physical_device # 0
               THEN Proceed("create_device")
               ELSE ReturnNotSupported("find_adapter")
            /\ UNCHANGED << inspected, physical_device >>
       ELSE LET phd == Len(inspected) + 1
            IN  /\ inspected' = Append(inspected, phd)
                /\ physical_device' =
                    IF inspect_adapter(physical_devices[phd]) THEN phd
                    ELSE physical_device
                /\ Proceed("find_adapter")
    /\ UNCHANGED << calls, created, supported_instance_extensions,
                    is_vulkan_portability, instance_extensions, create_flags,
                    physical_devices, device_extensions, memory_types,
                    valid_ash_memory_types, syncVars, otherVars >>

\* physical_devices.into_iter().find_map(|phd| inspect_adapter(phd, ..).map(..))
\* .ok_or(NotSupportedError)?: one turn of the iteration
FindAdapter ==
    /\ init_pc = "find_adapter"
    /\ IF Len(inspected) = Len(physical_devices)
       THEN /\ ReturnNotSupported("find_adapter")
            /\ UNCHANGED << inspected, physical_device >>
       ELSE LET phd == Len(inspected) + 1
            IN  /\ inspected' = Append(inspected, phd)
                /\ IF inspect_adapter(physical_devices[phd])
                   THEN /\ physical_device' = phd
                        /\ Proceed("create_device")
                   ELSE /\ UNCHANGED physical_device
                        /\ Proceed("find_adapter")
    /\ UNCHANGED << calls, created, supported_instance_extensions,
                    is_vulkan_portability, instance_extensions, create_flags,
                    physical_devices, device_extensions, memory_types,
                    valid_ash_memory_types, syncVars, otherVars >>

\* mutant: the portability-subset extension is never pushed
CreateDevice_NoPortabilitySubset ==
    /\ init_pc = "create_device"
    /\ calls' = Append(calls, "create_device")
    /\ device_extensions' = RequiredDeviceExtensions
    /\ \E ok \in BOOLEAN :
        IF ok
        THEN /\ Proceed("memory_manager")
             /\ created' = created \cup {"device"}
        ELSE /\ Panic("create_device")
             /\ UNCHANGED created
    /\ UNCHANGED << supported_instance_extensions, is_vulkan_portability,
                    instance_extensions, create_flags, physical_devices,
                    inspected, physical_device, memory_types,
                    valid_ash_memory_types, syncVars, otherVars >>

\* instance.create_device(physical_device, &device_create_info, None).unwrap()
CreateDevice ==
    /\ init_pc = "create_device"
    /\ calls' = Append(calls, "create_device")
    /\ device_extensions' =
        IF is_vulkan_portability
        THEN RequiredDeviceExtensions \cup {PORTABILITY_SUBSET}
        ELSE RequiredDeviceExtensions
    /\ \E ok \in BOOLEAN :
        IF ok
        THEN /\ Proceed("memory_manager")
             /\ created' = created \cup {"device"}
        ELSE /\ Panic("create_device")
             /\ UNCHANGED created
    /\ UNCHANGED << supported_instance_extensions, is_vulkan_portability,
                    instance_extensions, create_flags, physical_devices,
                    inspected, physical_device, memory_types,
                    valid_ash_memory_types, syncVars, otherVars >>

\* let memory_manager = { .. }: the device reports at most max_types memory types
BuildMemoryManager(max_types) ==
    /\ init_pc = "memory_manager"
    /\ \E types \in SeqsUpTo(MemoryPropertyFlags, max_types) :
        /\ memory_types' = types
        /\ valid_ash_memory_types' = ValidAshMemoryTypes(types)
    /\ created' = created \cup {"memory_manager"}
    /\ Proceed("timeline_semaphore")
    /\ UNCHANGED << calls, supported_instance_extensions, is_vulkan_portability,
                    instance_extensions, create_flags, physical_devices,
                    inspected, physical_device, device_extensions, syncVars, otherVars >>

\* device.get_device_queue(family_index, 0); let last_progress = 0;
\* device.create_semaphore(&semaphore_create_info, None).unwrap(); Ok(Context {..})
CreateTimelineSemaphore ==
    /\ init_pc = "timeline_semaphore"
    /\ calls' = Append(calls, "create_semaphore")
    /\ \E ok \in BOOLEAN :
        IF ok
        THEN /\ init_pc' = "done"
             /\ init_result' = "Ok"
             /\ UNCHANGED failed_step
             /\ created' = created \cup {"queue", "timeline_semaphore"}
        ELSE /\ Panic("create_semaphore")
             /\ created' = created \cup {"queue"}
    /\ UNCHANGED << supported_instance_extensions, is_vulkan_portability,
                    instance_extensions, create_flags, physical_devices,
                    inspected, physical_device, device_extensions, memory_types,
                    valid_ash_memory_types, syncVars, otherVars >>

\* a device that passes inspect_adapter
CapableDevice ==
    [max_inline_uniform_block_size |-> PLAIN_DATA_SIZE,
     max_descriptor_set_inline_uniform_blocks |-> 1,
     inline_uniform_block |-> 1,
     timeline_semaphore |-> 1]

\* init on a machine with one capable device, after create_device
BootAtMemoryManager ==
    /\ init_pc = "memory_manager"
    /\ init_result = "pending"
    /\ failed_step = "none"
    /\ calls = << "Entry::load", "try_enumerate_instance_version",
                  "enumerate_instance_layer_properties",
                  "enumerate_instance_extension_properties", "create_instance",
                  "enumerate_physical_devices", "create_device" >>
    /\ created = {"entry", "instance", "device"}
    /\ supported_instance_extensions = {DEBUG_UTILS, GET_PHYSICAL_DEVICE_PROPERTIES2}
    /\ is_vulkan_portability = FALSE
    /\ instance_extensions = RequiredInstanceExtensions
    /\ create_flags = {}
    /\ physical_devices = << CapableDevice >>
    /\ inspected = << 1 >>
    /\ physical_device = 1
    /\ device_extensions = RequiredDeviceExtensions
    /\ memory_types = << >>
    /\ valid_ash_memory_types = 0

\* the same init, returned Ok: the Context the threads work on
BootReady ==
    /\ init_pc = "done"
    /\ init_result = "Ok"
    /\ failed_step = "none"
    /\ calls = << "Entry::load", "try_enumerate_instance_version",
                  "enumerate_instance_layer_properties",
                  "enumerate_instance_extension_properties", "create_instance",
                  "enumerate_physical_devices", "create_device",
                  "create_semaphore" >>
    /\ created = {"entry", "instance", "device", "memory_manager", "queue",
                  "timeline_semaphore"}
    /\ supported_instance_extensions = {DEBUG_UTILS, GET_PHYSICAL_DEVICE_PROPERTIES2}
    /\ is_vulkan_portability = FALSE
    /\ instance_extensions = RequiredInstanceExtensions
    /\ create_flags = {}
    /\ physical_devices = << CapableDevice >>
    /\ inspected = << 1 >>
    /\ physical_device = 1
    /\ device_extensions = RequiredDeviceExtensions
    /\ memory_types = << {0} >>
    /\ valid_ash_memory_types = 1

\* ------------------------------------------------------------ command encoders
MaxEncoders == 2
MaxBufferCount == 2

\* a native object as the driver returned it: `owner` is the number of the
\* create_command_encoder call that made it, `parent` the command pool a
\* command buffer was allocated from (0 for the pools)
NativeObject(kind, parent, owner) ==
    [kind |-> kind, parent |-> parent, owner |-> owner, live |-> TRUE,
     releases |-> 0]

\* vkFreeCommandBuffers / vkDestroyDescriptorPool / vkDestroyCommandPool on the
\* object `id`; destroying a command pool also frees the command buffers still
\* allocated from it
ReleaseNative(objects, id) ==
    [o \in DOMAIN objects |->
        IF o = id
        THEN [objects[o] EXCEPT !.live = FALSE, !.releases = @ + 1]
        ELSE IF objects[o].parent = id
             THEN [objects[o] EXCEPT !.live = FALSE]
             ELSE objects[o]]

NoEncoderCall ==
    [buffer_count |-> 0, pool |-> 0, cmd_buffers |-> << >>, buffers |-> << >>,
     encoder |-> 0]

\* a Context on which no command encoder has been created yet
EncoderInit ==
    /\ native = << >>
    /\ encoders = << >>
    /\ enc_pc = "idle"
    /\ enc_local = NoEncoderCall
    /\ released = << >>

\* create_command_encoder(desc): create_command_pool(..).unwrap()
CreateCommandPool ==
    /\ enc_pc = "idle"
    /\ Len(encoders) < MaxEncoders
    /\ \E buffer_count \in 1 .. MaxBufferCount, ok \in BOOLEAN :
        IF ok
        THEN /\ native' = Append(native,
                    NativeObject("command_pool", 0, Len(encoders) + 1))
             /\ enc_local' = [NoEncoderCall EXCEPT
                    !.buffer_count = buffer_count,
                    !.pool = Len(native) + 1,
                    !.encoder = Len(encoders) + 1]
             /\ enc_pc' = "allocate_command_buffers"
        ELSE /\ enc_pc' = "panic"
             /\ UNCHANGED << native, enc_local >>
    /\ UNCHANGED << encoders, released >>
    /\ UNCHANGED notEncoderVars

\* allocate_command_buffers(command_buffer_count(desc.buffer_count)).unwrap()
AllocateCommandBuffers ==
    /\ enc_pc = "allocate_command_buffers"
    /\ \E ok \in BOOLEAN :
        IF ok
        THEN /\ native' = native \o
                    [i \in 1 .. enc_local.buffer_count |->
                        NativeObject("command_buffer", enc_local.pool,
                                     enc_local.encoder)]
             /\ enc_local' = [enc_local EXCEPT !.cmd_buffers =
                    [i \in 1 .. enc_local.buffer_count |-> Len(native) + i]]
             /\ enc_pc' = "map"
        ELSE /\ enc_pc' = "panic"
             /\ UNCHANGED << native, enc_local >>
    /\ UNCHANGED << encoders, released >>
    /\ UNCHANGED notEncoderVars

\* mutant: one descriptor pool, made for the first buffer, serves all of them
CreateDescriptorPool_Shared ==
    /\ enc_pc = "map"
    /\ enc_local.cmd_buffers # << >>
    /\ IF enc_local.buffers = << >>
       THEN /\ native' = Append(native,
                    NativeObject("descriptor_pool", 0, enc_local.encoder))
            /\ enc_local' = [enc_local EXCEPT
                    !.cmd_buffers = Tail(@),
                    !.buffers = Append(@,
                        [raw |-> Head(enc_local.cmd_buffers),
                         descriptor_pool |-> Len(native) + 1])]
       ELSE /\ native' = native
            /\ enc_local' = [enc_local EXCEPT
                    !.cmd_buffers = Tail(@),
                    !.buffers = Append(@,
                        [raw |-> Head(enc_local.cmd_buffers),
                         descriptor_pool |-> enc_local.buffers[1].descriptor_pool])]
    /\ enc_pc' = "map"
    /\ UNCHANGED << encoders, released >>
    /\ UNCHANGED notEncoderVars

\* cmd_buffers.into_iter().map(|raw| ..): for the next raw command buffer,
\* create_descriptor_pool(..).unwrap(), then CommandBuffer { raw, descriptor_pool }
CreateDescriptorPool ==
    /\ enc_pc = "map"
    /\ enc_local.cmd_buffers # << >>
    /\ \E ok \in BOOLEAN :
        IF ok
        THEN /\ native' = Append(native,
                    NativeObject("descriptor_pool", 0, enc_local.encoder))
             /\ enc_local' = [enc_local EXCEPT
                    !.cmd_buffers = Tail(@),
                    !.buffers = Append(@,
                        [raw |-> Head(enc_local.cmd_buffers),
                         descriptor_pool |-> Len(native) + 1])]
             /\ enc_pc' = "map"
        ELSE /\ enc_pc' = "panic"
             /\ UNCHANGED << native, enc_local >>
    /\ UNCHANGED << encoders, released >>
    /\ UNCHANGED notEncoderVars

\* .collect(), then CommandEncoder { pool, buffers, .. } is returned
ReturnCommandEncoder ==
    /\ enc_pc = "map"
    /\ enc_local.cmd_buffers = << >>
    /\ encoders' = Append(encoders,
            [pool |-> enc_local.pool, buffers |-> enc_local.buffers,
             buffer_count |-> enc_local.buffer_count, state |-> "owned"])
    /\ enc_pc' = "idle"
    /\ enc_local' = NoEncoderCall
    /\ UNCHANGED << native, released >>
    /\ UNCHANGED notEncoderVars

\* destroy_command_encoder(command_encoder): the encoder is moved into the call
DestroyCommandEncoder ==
    /\ enc_pc = "idle"
    /\ \E e \in DOMAIN encoders :
        /\ encoders[e].state = "owned"
        /\ encoders' = [encoders EXCEPT ![e].state = "moved"]
        /\ enc_local' = [NoEncoderCall EXCEPT
                !.pool = encoders[e].pool,
                !.buffers = encoders[e].buffers,
                !.encoder = e]
    /\ enc_pc' = "free_command_buffers"
    /\ UNCHANGED << native, released >>
    /\ UNCHANGED notEncoderVars

\* mutant: the first iteration frees the whole array of command buffers, the
\* later ones free nothing
FreeCommandBuffers_WholeArray ==
    /\ enc_pc = "free_command_buffers"
    /\ enc_local.buffers # << >>
    /\ LET all == [i \in DOMAIN enc_local.buffers |-> enc_local.buffers[i].raw]
           first == native[Head(enc_local.buffers).raw].live
       IN  /\ native' = IF first
                        THEN [o \in DOMAIN native |->
                                IF \E i \in DOMAIN all : all[i] = o
                                THEN [native[o] EXCEPT !.live = FALSE,
                                                       !.releases = @ + 1]
                                ELSE native[o]]
                        ELSE native
           /\ released' = IF first THEN released \o all ELSE released
    /\ enc_pc' = "destroy_descriptor_pool"
    /\ UNCHANGED << encoders, enc_local >>
    /\ UNCHANGED notEncoderVars

\* for cmd_buf in command_encoder.buffers.into_iter():
\* free_command_buffers(command_encoder.pool, &[cmd_buf.raw])
FreeCommandBuffers ==
    /\ enc_pc = "free_command_buffers"
    /\ enc_local.buffers # << >>
    /\ native' = ReleaseNative(native, Head(enc_local.buffers).raw)
    /\ released' = Append(released, Head(enc_local.buffers).raw)
    /\ enc_pc' = "destroy_descriptor_pool"
    /\ UNCHANGED << encoders, enc_local >>
    /\ UNCHANGED notEncoderVars

\* mutant: the loop drops the buffer without destroying its descriptor pool
DestroyDescriptorPool_Skipped ==
    /\ enc_pc = "destroy_descriptor_pool"
    /\ enc_local' = [enc_local EXCEPT !.buffers = Tail(@)]
    /\ enc_pc' = "free_command_buffers"
    /\ UNCHANGED << native, released, encoders >>
    /\ UNCHANGED notEncoderVars

\* destroy_descriptor_pool(cmd_buf.descriptor_pool, None), end of the loop body
DestroyDescriptorPool ==
    /\ enc_pc = "destroy_descriptor_pool"
    /\ native' = ReleaseNative(native, Head(enc_local.buffers).descriptor_pool)
    /\ released' = Append(released, Head(enc_local.buffers).descriptor_pool)
    /\ enc_local' = [enc_local EXCEPT !.buffers = Tail(@)]
    /\ enc_pc' = "free_command_buffers"
    /\ UNCHANGED encoders
    /\ UNCHANGED notEncoderVars

\* after the loop: destroy_command_pool(command_encoder.pool, None), return
DestroyCommandPool ==
    /\ enc_pc = "free_command_buffers"
    /\ enc_local.buffers = << >>
    /\ native' = ReleaseNative(native, enc_local.pool)
    /\ released' = Append(released, enc_local.pool)
    /\ encoders' = [encoders EXCEPT ![enc_local.encoder].state = "destroyed"]
    /\ enc_pc' = "idle"
    /\ enc_local' = NoEncoderCall
    /\ UNCHANGED notEncoderVars

\* --------------------------------------------------------------- Memory Manager
MaxLiveBlocks == 2
MaxAllocations == 4

\* an empty entry of MemoryManager.slab
Vacant == 0

\* the handles of the table: Buffer.memory_handle is the index, counted from 0
SlabHandles == 0 .. Len(slab) - 1
SlabEntry(h) == slab[h + 1]

NoMemoryCall ==
    [op |-> "none", handle |-> 0, block |-> Vacant, removed |-> Vacant,
     outcome |-> "none"]

\* MemoryManager { slab: Slab::new(), .. }
SlabInit ==
    /\ slab = << >>
    /\ live_blocks = {}
    /\ blocks_made = 0
    /\ issued = {}
    /\ mem_last = NoMemoryCall
    /\ mem_state = "ready"

\* allocate: the sub-allocator returns a block or fails (fatal); the block is
\* inserted into the table, at a vacant entry if there is one and at a new
\* entry otherwise, and the handle returned is that entry's index
AllocateMemory ==
    /\ mem_state = "ready"
    /\ blocks_made < MaxAllocations
    /\ Cardinality(live_blocks) < MaxLiveBlocks
    /\ \E ok \in BOOLEAN :
        IF ok
        THEN LET block == blocks_made + 1
                 vacant == {h \in SlabHandles : SlabEntry(h) = Vacant}
             IN  /\ \E h \in (IF vacant = {} THEN {Len(slab)} ELSE vacant) :
                        /\ slab' = IF h = Len(slab)
                                   THEN Append(slab, block)
                                   ELSE [slab EXCEPT ![h + 1] = block]
                        /\ issued' = issued \cup {[handle |-> h, block |-> block]}
                        /\ mem_last' = [op |-> "allocate", handle |-> h,
                                        block |-> block, removed |-> Vacant,
                                        outcome |-> "ok"]
                 /\ live_blocks' = live_blocks \cup {block}
                 /\ blocks_made' = block
                 /\ UNCHANGED mem_state
        ELSE /\ mem_state' = "panic"
             /\ mem_last' = [NoMemoryCall EXCEPT !.op = "allocate",
                                                 !.outcome = "panic"]
             /\ UNCHANGED << slab, live_blocks, blocks_made, issued >>
    /\ UNCHANGED notSlabVars

\* mutant: free removes the entry and closes the gap, as Vec::remove does
FreeMemory_Compacting ==
    /\ mem_state = "ready"
    /\ \E r \in issued :
        IF r.handle \notin SlabHandles \/ SlabEntry(r.handle) = Vacant
        THEN /\ mem_state' = "panic"
             /\ mem_last' = [op |-> "free", handle |-> r.handle,
                             block |-> r.block, removed |-> Vacant,
                             outcome |-> "panic"]
             /\ UNCHANGED << slab, live_blocks >>
        ELSE /\ slab' = [i \in 1 .. Len(slab) - 1 |->
                            IF i < r.handle + 1 THEN slab[i] ELSE slab[i + 1]]
             /\ live_blocks' = live_blocks \ {SlabEntry(r.handle)}
             /\ mem_last' = [op |-> "free", handle |-> r.handle,
                             block |-> r.block,
                             removed |-> SlabEntry(r.handle), outcome |-> "ok"]
             /\ UNCHANGED mem_state
    /\ UNCHANGED << blocks_made, issued >>
    /\ UNCHANGED notSlabVars

\* free(handle), by any holder of a handle value (handles are plain integers
\* inside Copy resource values): removing a vacant entry is fatal; an occupied
\* entry is vacated in place and its block goes back to the sub-allocator
FreeMemory ==
    /\ mem_state = "ready"
    /\ \E r \in issued :
        IF SlabEntry(r.handle) = Vacant
        THEN /\ mem_state' = "panic"
             /\ mem_last' = [op |-> "free", handle |-> r.handle,
                             block |-> r.block, removed |-> Vacant,
                             outcome |-> "panic"]
             /\ UNCHANGED << slab, live_blocks >>
        ELSE /\ slab' = [slab EXCEPT ![r.handle + 1] = Vacant]
             /\ live_blocks' = live_blocks \ {SlabEntry(r.handle)}
             /\ mem_last' = [op |-> "free", handle |-> r.handle,
                             block |-> r.block,
                             removed |-> SlabEntry(r.handle), outcome |-> "ok"]
             /\ UNCHANGED mem_state
    /\ UNCHANGED << blocks_made, issued >>
    /\ UNCHANGED notSlabVars

\* ------------------------------------------------------- DescriptorSetLayout
MaxBindings == 3

\* the declared byte sizes a binding can have in the flat update buffer
BindingSizes == {4, 16, 24}

\* no descriptor-set layout is being built
LayoutInit ==
    /\ layout_pc = "idle"
    /\ layout_bindings = << >>
    /\ update_offset = 0
    /\ template_offsets = << >>
    /\ template_size = 0

\* a layout is created from an ordered list of bindings: the offset table is
\* empty and the running offset is 0
CreateDescriptorSetLayout ==
    /\ layout_pc = "idle"
    /\ \E sizes \in SeqsUpTo(BindingSizes, MaxBindings) :
        layout_bindings' = sizes
    /\ update_offset' = 0
    /\ template_offsets' = << >>
    /\ template_size' = 0
    /\ layout_pc' = "bindings"
    /\ UNCHANGED notLayoutVars

\* mutant: the running offset is advanced before it is recorded
PushTemplateOffset_AfterAdvance ==
    /\ layout_pc = "bindings"
    /\ Len(template_offsets) < Len(layout_bindings)
    /\ LET size == layout_bindings[Len(template_offsets) + 1]
       IN  /\ template_offsets' = Append(template_offsets, update_offset + size)
           /\ update_offset' = update_offset + size
    /\ UNCHANGED << layout_pc, layout_bindings, template_size >>
    /\ UNCHANGED notLayoutVars

\* the next binding, in declaration order: its offset is the running offset,
\* which then advances by the binding's size
PushTemplateOffset ==
    /\ layout_pc = "bindings"
    /\ Len(template_offsets) < Len(layout_bindings)
    /\ LET size == layout_bindings[Len(template_offsets) + 1]
       IN  /\ template_offsets' = Append(template_offsets, update_offset)
           /\ update_offset' = update_offset + size
    /\ UNCHANGED << layout_pc, layout_bindings, template_size >>
    /\ UNCHANGED notLayoutVars

\* all bindings done: DescriptorSetLayout { template_size, template_offsets, .. }
FinishDescriptorSetLayout ==
    /\ layout_pc = "bindings"
    /\ Len(template_offsets) = Len(layout_bindings)
    /\ template_size' = update_offset
    /\ layout_pc' = "created"
    /\ UNCHANGED << layout_bindings, update_offset, template_offsets >>
    /\ UNCHANGED notLayoutVars

\* ------------------------------------------------- SyncPoint values and owners
MaxSyncPoints == 3

\* no SyncPoint exists, nobody holds one
Dropped == 0

\* a Context on which nothing was submitted
SyncPointInit ==
    /\ sync_points = << >>
    /\ signalled = 0

\* submit returns SyncPoint { progress } to the calling thread: the value is
\* made inside the module (the field is private), the caller becomes its owner
OwnerSubmit(t) ==
    /\ Len(sync_points) < MaxSyncPoints
    /\ sync_points' = Append(sync_points,
            [progress |-> Len(sync_points) + 1, holder |-> t, waits |-> 0,
             result |-> "none"])
    /\ UNCHANGED signalled
    /\ UNCHANGED notSyncPointVars

\* the owner hands the value to another thread (a move: SyncPoint has no
\* Clone and no Copy, so the sender keeps nothing)
OwnerSend(t, u) ==
    /\ t # u
    /\ \E i \in DOMAIN sync_points :
        /\ sync_points[i].holder = t
        /\ sync_points' = [sync_points EXCEPT ![i].holder = u]
    /\ UNCHANGED signalled
    /\ UNCHANGED notSyncPointVars

\* wait_for(&self, sp: SyncPoint, timeout_ms): sp is taken by value, so the
\* call moves it out of the caller and drops it on return; the result is
\* whether the semaphore reached sp.progress before the timeout
OwnerWaitFor(t) ==
    /\ \E i \in DOMAIN sync_points :
        /\ sync_points[i].holder = t
        /\ sync_points' = [sync_points EXCEPT
                ![i].holder = Dropped,
                ![i].waits = @ + 1,
                ![i].result = IF signalled >= sync_points[i].progress
                              THEN "true" ELSE "false"]
    /\ UNCHANGED signalled
    /\ UNCHANGED notSyncPointVars

\* the device completes the next submission and signals its progress value
OwnerSignal ==
    /\ signalled < Len(sync_points)
    /\ signalled' = signalled + 1
    /\ UNCHANGED sync_points
    /\ UNCHANGED notSyncPointVars

\* --------------------------------------------------------------- Engine::update
\* f32 arithmetic, scaled down: a value is a whole number of units (the
\* smallest positive value), and a result keeps MantissaBits significant bits
\* where f32 keeps 24
MantissaBits == 3
MaxTimeStep == 3

\* the largest dt drawn: rounding starts to show at 2 ^ MantissaBits
MaxDt == 2 ^ (MantissaBits + 1)

\* more iterations than any update that returns can make
MaxSteps == 2 * MaxDt

RECURSIVE Quantum(_)
\* the spacing of the representable values around n
Quantum(n) == IF n < 2 ^ MantissaBits THEN 1 ELSE 2 * Quantum(n \div 2)

\* round to nearest, ties to even: the value an f32 operation stores when its
\* exact result is n
RoundFloat(n) ==
    LET q == Quantum(n)
        lo == (n \div q) * q
        hi == lo + q
    IN  IF n - lo < hi - n THEN lo
        ELSE IF n - lo > hi - n THEN hi
        ELSE IF (lo \div q) % 2 = 0 THEN lo
        ELSE hi

\* the representable values up to n
FloatsUpTo(n) == {x \in 0 .. n : RoundFloat(x) = x}

\* Engine::new: physics.integration_params.dt = config.time_step, time_ahead: 0.0
EngineNew ==
    /\ time_step \in FloatsUpTo(MaxTimeStep) \ {0}
    /\ time_ahead = 0
    /\ update_pc = "new"
    /\ update_dt = 0
    /\ time_ahead_before = 0
    /\ steps = 0
    /\ exact = TRUE

\* an engine that is never updated
EngineAtRest ==
    /\ time_step = 1
    /\ time_ahead = 0
    /\ update_pc = "new"
    /\ update_dt = 0
    /\ time_ahead_before = 0
    /\ steps = 0
    /\ exact = TRUE

\* update(&mut self, dt): self.time_ahead += dt
UpdateCall ==
    /\ update_pc \in {"new", "returned"}
    /\ \E dt \in FloatsUpTo(MaxDt) :
        /\ update_dt' = dt
        /\ time_ahead' = RoundFloat(time_ahead + dt)
        /\ exact' = (RoundFloat(time_ahead + dt) = time_ahead + dt)
    /\ time_ahead_before' = time_ahead
    /\ steps' = 0
    /\ update_pc' = "loop"
    /\ UNCHANGED time_step
    /\ UNCHANGED notEngineVars

\* while self.time_ahead >= dt { self.physics.step(); self.time_ahead -= dt }
UpdateStep ==
    /\ update_pc = "loop"
    /\ time_ahead >= time_step
    /\ steps < MaxSteps
    /\ steps' = steps + 1
    /\ time_ahead' = RoundFloat(time_ahead - time_step)
    /\ exact' = (exact /\ RoundFloat(time_ahead - time_step) = time_ahead - time_step)
    /\ UNCHANGED << update_pc, update_dt, time_ahead_before, time_step >>
    /\ UNCHANGED notEngineVars

\* mutant: the loop runs while time_ahead > dt
UpdateReturn_StrictLoop ==
    /\ update_pc = "loop"
    /\ time_ahead <= time_step
    /\ update_pc' = "returned"
    /\ UNCHANGED << time_ahead, time_step, update_dt, time_ahead_before, steps,
                    exact >>
    /\ UNCHANGED notEngineVars

\* the loop condition is false: update returns
UpdateReturn ==
    /\ update_pc = "loop"
    /\ ~(time_ahead >= time_step)
    /\ update_pc' = "returned"
    /\ UNCHANGED << time_ahead, time_step, update_dt, time_ahead_before, steps,
                    exact >>
    /\ UNCHANGED notEngineVars

\* ------------------------------------------------- map_timeout on full-width values
\* u32 and u64 values as little-endian sequences of 16-bit limbs (two limbs and
\* four limbs), so that every u32 argument and every u64 result can be written
TimeoutSpread == 1

LimbBase == 65536

\* 1_000_000 = 15 * 65536 + 16960
NanosPerMilli == << 16960, 15 >>

\* limb i of a, 0 beyond its length
LimbAt(a, i) == IF i \in DOMAIN a THEN a[i] ELSE 0

\* `as u64` / `as u32`: zero-extend or truncate to `width` limbs
Resize(a, width) == [i \in 1 .. width |-> LimbAt(a, i)]

\* the sum of the limb products that fall on limb k of a * b
ColumnSum(a, b, k) ==
    LET RECURSIVE Upto(_)
        Upto(i) == IF i = 0 THEN 0
                   ELSE Upto(i - 1) + LimbAt(a, i) * LimbAt(b, k + 1 - i)
    IN  Upto(k)

RECURSIVE CarryInto(_, _, _)
\* the carry that long multiplication brings into limb k
CarryInto(a, b, k) ==
    IF k = 1 THEN 0
    ELSE (ColumnSum(a, b, k - 1) + CarryInto(a, b, k - 1)) \div LimbBase

\* a * b modulo LimbBase ^ width (wrapping multiplication at that width)
WrappingMul(a, b, width) ==
    [k \in 1 .. width |-> (ColumnSum(a, b, k) + CarryInto(a, b, k)) % LimbBase]

\* mutant: the product is formed in u32 and widened afterwards
map_timeout_u64_NarrowProduct(millis) ==
    Resize(WrappingMul(millis, NanosPerMilli, 2), 4)

\* fn map_timeout(millis: u32) -> u64 { millis as u64 * 1_000_000 }
map_timeout_u64(millis) ==
    WrappingMul(Resize(millis, 4), NanosPerMilli, 4)

\* the limb values within TimeoutSpread of one of the anchors
Around(anchors) ==
    {v \in 0 .. LimbBase - 1 :
        \E a \in anchors : v - a \in -TimeoutSpread .. TimeoutSpread}

\* the u32 arguments drawn: low limb around 0, 4294 (from 4295 on the product
\* passes 2^32) and 2^16 - 1, high limb around 0, 2^15 and 2^16 - 1, which
\* reaches 0 and 2^32 - 1
MillisValues ==
    {<< lo, hi >> : lo \in Around({0, 4294, LimbBase - 1}),
                    hi \in Around({0, 32768, LimbBase - 1})}

\* no call of map_timeout yet
TimeoutInit == timeout_calls = << >>

\* a call of map_timeout; the model keeps the latest two calls
MapTimeout ==
    /\ \E millis \in MillisValues :
        timeout_calls' =
            << [millis |-> millis, nanos |-> map_timeout_u64(millis)] >>
                \o (IF timeout_calls = << >> THEN << >> ELSE << timeout_calls[1] >>)
    /\ UNCHANGED notTimeoutVars

\* ------------------------------------------------------- format and range mapping
MaxMipLevel == 2

\* bitflags FormatAspects: u32, a value is the set of its bit positions
\* const COLOR = 0 << 1 (no bit), DEPTH = 1 << 1, STENCIL = 1 << 2
FormatAspects_COLOR == {}

FormatAspects_DEPTH == {1}

FormatAspects_STENCIL == {2}

\* every FormatAspects value (from_bits over the declared constants)
FormatAspectsValues == SUBSET (FormatAspects_COLOR \cup FormatAspects_DEPTH
                                   \cup FormatAspects_STENCIL)

\* fn map_aspects: vk::ImageAspectFlags as the set of the flags set
map_aspects(aspects) ==
    (IF flags_contains(aspects, FormatAspects_COLOR) THEN {"COLOR"} ELSE {})
    \cup (IF flags_contains(aspects, FormatAspects_DEPTH) THEN {"DEPTH"} ELSE {})
    \cup (IF flags_contains(aspects, FormatAspects_STENCIL) THEN {"STENCIL"} ELSE {})

\* a u32 below 2^31 as its two 16-bit limbs
U32(n) == << n % LimbBase, n \div LimbBase >>

\* vk::REMAINING_MIP_LEVELS and vk::REMAINING_ARRAY_LAYERS are both !0u32
REMAINING_MIP_LEVELS == << LimbBase - 1, LimbBase - 1 >>

REMAINING_ARRAY_LAYERS == << LimbBase - 1, LimbBase - 1 >>

\* Option<NonZeroU32>: None, or Some(n) as n >= 1
None == 0

\* the TextureSubresources values drawn
TextureSubresourcesValues ==
    [base_mip_level : 0 .. MaxMipLevel, mip_level_count : 0 .. MaxMipLevel,
     base_array_layer : 0 .. MaxMipLevel, array_layer_count : 0 .. MaxMipLevel]

\* mutant: the two base fields are exchanged
map_subresource_range_BasesSwapped(subresources, aspects) ==
    [aspect_mask |-> map_aspects(aspects),
     base_mip_level |-> U32(subresources.base_array_layer),
     level_count |->
        IF subresources.mip_level_count = None THEN REMAINING_MIP_LEVELS
        ELSE U32(subresources.mip_level_count),
     base_array_layer |-> U32(subresources.base_mip_level),
     layer_count |->
        IF subresources.array_layer_count = None THEN REMAINING_ARRAY_LAYERS
        ELSE U32(subresources.array_layer_count)]

\* fn map_subresource_range
map_subresource_range(subresources, aspects) ==
    [aspect_mask |-> map_aspects(aspects),
     base_mip_level |-> U32(subresources.base_mip_level),
     level_count |->
        IF subresources.mip_level_count = None THEN REMAINING_MIP_LEVELS
        ELSE U32(subresources.mip_level_count),
     base_array_layer |-> U32(subresources.base_array_layer),
     layer_count |->
        IF subresources.array_layer_count = None THEN REMAINING_ARRAY_LAYERS
        ELSE U32(subresources.array_layer_count)]

\* neither function called yet
FormatInit ==
    /\ aspects_call = << >>
    /\ range_call = << >>

\* a call of map_aspects
MapAspects ==
    /\ \E aspects \in FormatAspectsValues :
        aspects_call' = << [aspects |-> aspects, flags |-> map_aspects(aspects)] >>
    /\ UNCHANGED << range_call, notFormatVars >>

\* a call of map_subresource_range
MapSubresourceRange ==
    /\ \E subresources \in TextureSubresourcesValues, aspects \in FormatAspectsValues :
        range_call' = << [subresources |-> subresources, aspects |-> aspects,
                          range |-> map_subresource_range(subresources, aspects)] >>
    /\ UNCHANGED << aspects_call, notFormatVars >>

\* ------------------------------------------------- the two locks of the Context
\* Context { memory: Mutex<MemoryManager>, queue: Mutex<Queue> }: every
\* operation that takes one of the mutexes, followed from the call to the
\* place where its guard is dropped. lock_pc is the position of each thread.

\* no thread is in an operation, both mutexes are free
LockInit ==
    /\ lock_pc = [t \in Threads |-> "idle"]
    /\ memory_lock = NoThread
    /\ memory_poisoned = FALSE

\* what the lock-level actions leave alone in the queue state
queueRest == << last_progress, nativeVars, pc, progress, waitVars, submissions >>

\* a thread calls submit, wait_for, or an operation of the Memory Manager
\* (allocate, free)
OperationCall(t) ==
    /\ lock_pc[t] = "idle"
    /\ \E op \in {"s_lock", "w_lock", "a_lock", "f_lock"} :
        lock_pc' = [lock_pc EXCEPT ![t] = op]
    /\ UNCHANGED << memory_lock, memory_poisoned, queue_lock, queue_poisoned >>
    /\ UNCHANGED << queueRest, notLockVars >>

\* mutant: submit and wait_for take the Memory Manager's mutex as well
QueueAcquire_AlsoMemory(t) ==
    /\ lock_pc[t] \in {"s_lock", "w_lock"}
    /\ queue_lock = NoThread
    /\ memory_lock = NoThread
    /\ lock_pc' = [lock_pc EXCEPT ![t] =
                    IF lock_pc[t] = "s_lock" THEN "s_held" ELSE "w_held"]
    /\ queue_lock' = t
    /\ memory_lock' = t
    /\ UNCHANGED << memory_poisoned, queue_poisoned >>
    /\ UNCHANGED << queueRest, notLockVars >>

\* self.queue.lock().unwrap() in submit and in wait_for
QueueAcquire(t) ==
    /\ lock_pc[t] \in {"s_lock", "w_lock"}
    /\ queue_lock = NoThread
    /\ IF queue_poisoned
       THEN /\ lock_pc' = [lock_pc EXCEPT ![t] = "panicked"]
            /\ UNCHANGED queue_lock
       ELSE /\ lock_pc' = [lock_pc EXCEPT ![t] =
                               IF lock_pc[t] = "s_lock" THEN "s_held" ELSE "w_held"]
            /\ queue_lock' = t
    /\ UNCHANGED << memory_lock, memory_poisoned, queue_poisoned >>
    /\ UNCHANGED << queueRest, notLockVars >>

\* submit under the guard: increment, read, queue_submit(..).unwrap(); the
\* guard is dropped at the return, or by the panic, which poisons the mutex
SubmitSection(t) ==
    /\ lock_pc[t] = "s_held"
    /\ queue_lock' = NoThread
    /\ \E ok \in BOOLEAN :
        /\ lock_pc' = [lock_pc EXCEPT ![t] = IF ok THEN "idle" ELSE "panicked"]
        /\ queue_poisoned' = (queue_poisoned \/ ~ok)
    /\ UNCHANGED << memory_lock, memory_poisoned >>
    /\ UNCHANGED << queueRest, notLockVars >>

\* wait_for: the temporary guard is dropped once timeline_semaphore is copied
WaitFetchSection(t) ==
    /\ lock_pc[t] = "w_held"
    /\ queue_lock' = NoThread
    /\ lock_pc' = [lock_pc EXCEPT ![t] = "w_native"]
    /\ UNCHANGED << memory_lock, memory_poisoned, queue_poisoned >>
    /\ UNCHANGED << queueRest, notLockVars >>

\* wait_semaphores(&wait_info, timeout_ns) returns, at the latest on the timeout
WaitNativeSection(t) ==
    /\ lock_pc[t] = "w_native"
    /\ lock_pc' = [lock_pc EXCEPT ![t] = "idle"]
    /\ UNCHANGED << memory_lock, memory_poisoned, queue_lock, queue_poisoned >>
    /\ UNCHANGED << queueRest, notLockVars >>

\* allocate / free take the Memory Manager's mutex
MemoryAcquire(t) ==
    /\ lock_pc[t] \in {"a_lock", "f_lock"}
    /\ memory_lock = NoThread
    /\ IF memory_poisoned
       THEN /\ lock_pc' = [lock_pc EXCEPT ![t] = "panicked"]
            /\ UNCHANGED memory_lock
       ELSE /\ lock_pc' = [lock_pc EXCEPT ![t] =
                               IF lock_pc[t] = "a_lock" THEN "a_held" ELSE "f_held"]
            /\ memory_lock' = t
    /\ UNCHANGED << memory_poisoned, queue_lock, queue_poisoned >>
    /\ UNCHANGED << queueRest, notLockVars >>

\* allocate / free under the guard: the guard is dropped at the return, or by
\* the panic of a fatal failure (allocation failed, vacant handle freed)
MemorySection(t) ==
    /\ lock_pc[t] \in {"a_held", "f_held"}
    /\ memory_lock' = NoThread
    /\ \E ok \in BOOLEAN :
        /\ lock_pc' = [lock_pc EXCEPT ![t] = IF ok THEN "idle" ELSE "panicked"]
        /\ memory_poisoned' = (memory_poisoned \/ ~ok)
    /\ UNCHANGED << queue_lock, queue_poisoned >>
    /\ UNCHANGED << queueRest, notLockVars >>

\* a step of thread t inside an operation
LockStep(t) ==
    \/ QueueAcquire(t)
    \/ SubmitSection(t)
    \/ WaitFetchSection(t)
    \/ WaitNativeSection(t)
    \/ MemoryAcquire(t)
    \/ MemorySection(t)

\* ------------------------------------------------------------- Engine::render
MaxSizes == 2
MaxLoadTasks == 2

\* the surface sizes a window can have (gpu::Extent, by number)
Sizes == 1 .. MaxSizes

\* Engine::new for a window of size s: the surface is configured and the
\* renderer created with the same size; load_tasks: Vec::new(),
\* need_accumulation_reset: true, track_hot_reloads: false
RenderNew(s) ==
    /\ need_accumulation_reset = TRUE
    /\ track_hot_reloads = FALSE
    /\ load_tasks = 0
    /\ screen_size = s
    /\ surface_size = s
    /\ new_render_size = s
    /\ render_pc = "idle"
    /\ frame_log = << >>
    /\ prepare_reset = "none"
    /\ reset_deferred = FALSE

\* add_object / set_environment_map between two frames: self.load_tasks.push(task)
AddLoadTask ==
    /\ render_pc = "idle"
    /\ load_tasks < MaxLoadTasks
    /\ load_tasks' = load_tasks + 1
    /\ UNCHANGED << need_accumulation_reset, track_hot_reloads, screen_size,
                    surface_size, new_render_size, render_pc, frame_log,
                    prepare_reset, reset_deferred >>
    /\ UNCHANGED notRenderVars

\* render(.., physical_size, ..) up to line 379: the hot-reload check, then
\* new_render_size = make_surface_config(physical_size).size
RenderBegin ==
    /\ render_pc = "idle"
    /\ \E changed \in BOOLEAN :
        need_accumulation_reset' =
            IF track_hot_reloads THEN (need_accumulation_reset \/ changed)
            ELSE need_accumulation_reset
    /\ \E physical_size \in Sizes : new_render_size' = physical_size
    /\ frame_log' = << >>
    /\ prepare_reset' = "none"
    /\ reset_deferred' = (reset_deferred /\ need_accumulation_reset)
    /\ render_pc' = "surface"
    /\ UNCHANGED << track_hot_reloads, load_tasks, screen_size, surface_size >>
    /\ UNCHANGED notRenderVars

\* if new_render_size != renderer.get_screen_size():
\*     pacer.wait_for_previous_frame(); gpu_context.resize(surface_config)
RenderSurfaceResize ==
    /\ render_pc = "surface"
    /\ IF new_render_size # screen_size
       THEN /\ frame_log' = frame_log \o << "wait_for_previous_frame", "resize" >>
            /\ surface_size' = new_render_size
       ELSE UNCHANGED << frame_log, surface_size >>
    /\ render_pc' = "begin_frame"
    /\ UNCHANGED << need_accumulation_reset, track_hot_reloads, load_tasks,
                    screen_size, new_render_size, prepare_reset, reset_deferred >>
    /\ UNCHANGED notRenderVars

\* mutant: the second half of the resize is left out
RenderBeginFrame_NoScreenResize ==
    /\ render_pc = "begin_frame"
    /\ frame_log' = Append(frame_log, "begin_frame")
    /\ render_pc' = "retain"
    /\ UNCHANGED << need_accumulation_reset, screen_size, track_hot_reloads,
                    load_tasks, surface_size, new_render_size, prepare_reset,
                    reset_deferred >>
    /\ UNCHANGED notRenderVars

\* pacer.begin_frame(); if new_render_size != renderer.get_screen_size():
\*     renderer.resize_screen(new_render_size, ..); need_accumulation_reset = true
RenderBeginFrame ==
    /\ render_pc = "begin_frame"
    /\ IF new_render_size # screen_size
       THEN /\ frame_log' = frame_log \o << "begin_frame", "resize_screen" >>
            /\ screen_size' = new_render_size
            /\ need_accumulation_reset' = TRUE
       ELSE /\ frame_log' = Append(frame_log, "begin_frame")
            /\ UNCHANGED << screen_size, need_accumulation_reset >>
    /\ render_pc' = "retain"
    /\ UNCHANGED << track_hot_reloads, load_tasks, surface_size, new_render_size,
                    prepare_reset, reset_deferred >>
    /\ UNCHANGED notRenderVars

\* load_tasks.retain(|task| !task.is_done()): any of the tasks may be done
RenderRetain ==
    /\ render_pc = "retain"
    /\ \E left \in 0 .. load_tasks : load_tasks' = left
    /\ render_pc' = "scene"
    /\ UNCHANGED << need_accumulation_reset, track_hot_reloads, screen_size,
                    surface_size, new_render_size, frame_log, prepare_reset,
                    reset_deferred >>
    /\ UNCHANGED notRenderVars

\* mutant: the flag is cleared whether or not the frame was prepared
RenderScene_AlwaysCleared ==
    /\ render_pc = "scene"
    /\ IF load_tasks = 0
       THEN /\ frame_log' = frame_log \o << "build_scene", "prepare" >>
            /\ prepare_reset' = (IF need_accumulation_reset THEN "reset" ELSE "keep")
            /\ UNCHANGED reset_deferred
       ELSE /\ reset_deferred' = (reset_deferred \/ need_accumulation_reset)
            /\ UNCHANGED << frame_log, prepare_reset >>
    /\ need_accumulation_reset' = FALSE
    /\ render_pc' = "present"
    /\ UNCHANGED << track_hot_reloads, load_tasks, screen_size, surface_size,
                    new_render_size >>
    /\ UNCHANGED notRenderVars

\* if load_tasks.is_empty(): renderer.build_scene(..);
\*     renderer.prepare(.., need_accumulation_reset); need_accumulation_reset = false
RenderScene ==
    /\ render_pc = "scene"
    /\ IF load_tasks = 0
       THEN /\ frame_log' = frame_log \o << "build_scene", "prepare" >>
            /\ prepare_reset' = (IF need_accumulation_reset THEN "reset" ELSE "keep")
            /\ need_accumulation_reset' = FALSE
            /\ UNCHANGED reset_deferred
       ELSE /\ reset_deferred' = (reset_deferred \/ need_accumulation_reset)
            /\ UNCHANGED << frame_log, prepare_reset, need_accumulation_reset >>
    /\ render_pc' = "present"
    /\ UNCHANGED << track_hot_reloads, load_tasks, screen_size, surface_size,
                    new_render_size >>
    /\ UNCHANGED notRenderVars

\* the frame is acquired, painted and presented; pacer.end_frame(); return
RenderEnd ==
    /\ render_pc = "present"
    /\ frame_log' = Append(frame_log, "end_frame")
    /\ render_pc' = "idle"
    /\ UNCHANGED << need_accumulation_reset, track_hot_reloads, load_tasks,
                    screen_size, surface_size, new_render_size, prepare_reset,
                    reset_deferred >>
    /\ UNCHANGED notRenderVars

\* --------------------------------------------------------------- specification

\* the graphics objects outside the queue and init, before any is made
GraphicsInit ==
    /\ EncoderInit /\ SlabInit /\ LayoutInit /\ SyncPointInit
    /\ TimeoutInit /\ FormatInit /\ LockInit

\* everything outside the queue and init, at rest
OtherInit == GraphicsInit /\ EngineAtRest /\ RenderNew(1)

Init == QueueInit /\ BootReady /\ OtherInit

Next ==
    \/ \E t \in Threads : SubmitCall(t)
    \/ \E t \in Threads : SubmitLock(t)
    \/ \E t \in Threads : SubmitIncrement(t)
    \/ \E t \in Threads : SubmitRead(t)
    \/ \E t \in Threads : SubmitQueueSubmit(t)
    \/ \E t \in Threads : SubmitReturn(t)
    \/ \E t \in Threads : WaitForCall(t)
    \/ \E t \in Threads : WaitForLock(t)
    \/ \E t \in Threads : WaitForFetch(t)
    \/ \E t \in Threads : WaitForBlocked(t)
    \/ \E t \in Threads : WaitForNative(t)
    \/ \E t \in Threads : Return(t)
    \/ DeviceExecute
    \/ DeviceLoss

Spec == Init /\ [][Next]_vars

\* Context::init from its entry, on any machine
InitBoot == QueueInit /\ BootInit /\ OtherInit

NextBoot ==
    \/ LoadEntry
    \/ EnumerateInstanceVersion
    \/ EnumerateInstanceLayers
    \/ EnumerateInstanceExtensions
    \/ CheckInstanceExtensions
    \/ CreateInstance
    \/ EnumeratePhysicalDevices
    \/ FindAdapter
    \/ CreateDevice
    \/ BuildMemoryManager(1)
    \/ CreateTimelineSemaphore

SpecInit == InitBoot /\ [][NextBoot]_vars

\* the memory manager of init, on any list of memory types
InitMemory == QueueInit /\ BootAtMemoryManager /\ OtherInit

NextMemory ==
    \/ BuildMemoryManager(MaxMemTypes)
    \/ CreateTimelineSemaphore

SpecMemory == InitMemory /\ [][NextMemory]_vars

\* command encoders created and destroyed on a ready Context
InitEncoder == QueueInit /\ BootReady /\ OtherInit

NextEncoder ==
    \/ CreateCommandPool
    \/ AllocateCommandBuffers
    \/ CreateDescriptorPool
    \/ ReturnCommandEncoder
    \/ DestroyCommandEncoder
    \/ FreeCommandBuffers
    \/ DestroyDescriptorPool
    \/ DestroyCommandPool

SpecEncoder == InitEncoder /\ [][NextEncoder]_vars

\* memory blocks allocated and freed on a ready Context
InitSlab == QueueInit /\ BootReady /\ OtherInit

NextSlab ==
    \/ AllocateMemory
    \/ FreeMemory

SpecSlab == InitSlab /\ [][NextSlab]_vars

\* one descriptor-set layout created on a ready Context
InitLayout == QueueInit /\ BootReady /\ OtherInit

NextLayout ==
    \/ CreateDescriptorSetLayout
    \/ PushTemplateOffset
    \/ FinishDescriptorSetLayout

SpecLayout == InitLayout /\ [][NextLayout]_vars

\* the SyncPoint values of a ready Context and the threads that own them
InitSyncPoint == QueueInit /\ BootReady /\ OtherInit

NextSyncPoint ==
    \/ \E t \in Threads : OwnerSubmit(t)
    \/ \E t, u \in Threads : OwnerSend(t, u)
    \/ \E t \in Threads : OwnerWaitFor(t)
    \/ OwnerSignal

SpecSyncPoint == InitSyncPoint /\ [][NextSyncPoint]_vars

\* an Engine with any configured time step, updated again and again
InitUpdate == QueueInit /\ BootReady /\ GraphicsInit /\ EngineNew /\ RenderNew(1)

NextUpdate ==
    \/ UpdateCall
    \/ UpdateStep
    \/ UpdateReturn

SpecUpdate == InitUpdate /\ [][NextUpdate]_vars

\* map_timeout called on u32 values from the whole range
InitTimeout == QueueInit /\ BootReady /\ OtherInit

NextTimeout == MapTimeout

SpecTimeout == InitTimeout /\ [][NextTimeout]_vars

\* map_aspects and map_subresource_range called on drawn values
InitFormat == QueueInit /\ BootReady /\ OtherInit

NextFormat == MapAspects \/ MapSubresourceRange

SpecFormat == InitFormat /\ [][NextFormat]_vars

\* threads calling submit, wait_for, allocate and free, followed at the locks
InitLocks == QueueInit /\ BootReady /\ OtherInit

NextLocks == \E t \in Threads : OperationCall(t) \/ LockStep(t)

SpecLocks == InitLocks /\ [][NextLocks]_vars

\* an engine created for a window of any size, then render calls with load
\* tasks added between them
InitRender ==
    /\ QueueInit /\ BootReady /\ GraphicsInit /\ EngineAtRest
    /\ \E s \in Sizes : RenderNew(s)

NextRender ==
    \/ AddLoadTask
    \/ RenderBegin
    \/ RenderSurfaceResize
    \/ RenderBeginFrame
    \/ RenderRetain
    \/ RenderScene
    \/ RenderEnd

SpecRender == InitRender /\ [][NextRender]_vars

\* ------------------------------------------------------------------- claims

\* C1: the SyncPoints returned by submit carry pairwise distinct progress
\* values, strictly increasing in the order in which the calls took the queue
\* lock, whatever the interleaving of the calling threads.
C1_ProgressStrictlyIncreasing ==
    \A i, j \in DOMAIN submissions :
        (i < j /\ submissions[i].progress # 0 /\ submissions[j].progress # 0)
            => submissions[i].progress < submissions[j].progress

\* two submits by different threads have both returned their SyncPoints
C1_Witness ==
    /\ Len(submissions) >= 2
    /\ submissions[1].thread # submissions[2].thread
    /\ submissions[1].progress # 0
    /\ submissions[2].progress # 0

\* C2: wait_for on progress value p never returns true in a state where fewer
\* than p submissions have been handed to the native queue.
C2_NoTrueBeforeSubmit ==
    \A t \in Threads :
        (pc[t] = "w_done" /\ WaitForResult(t)) => Len(native_queue) >= sp[t]

\* wait_for returned true on the latest submission
C2_Witness ==
    \E t \in Threads :
        /\ pc[t] = "w_done"
        /\ WaitForResult(t)
        /\ sp[t] = Len(native_queue)
        /\ sp[t] = last_progress

\* C3: wait_for returns true exactly when the timeline semaphore's value has
\* reached sp.progress as the native wait returns; in particular with a timeout
\* of 0 on a value not yet signalled it returns false, and on a signalled value
\* it returns true whatever the timeout.
C3_TrueIffSignalled ==
    [][\A t \in Threads :
        (pc[t] = "w_native" /\ pc'[t] = "w_done")
            => /\ is_ok(vk_result'[t]) <=> (semaphore_value >= sp[t])
               /\ (timeout_ns[t] = 0 /\ semaphore_value < sp[t])
                    => ~is_ok(vk_result'[t])]_vars

\* one wait_for has timed out on an unsignalled value and another has returned
\* true on a signalled one
C3_Witness ==
    \E t, u \in Threads :
        /\ pc[t] = "w_done" /\ vk_result[t] = "TIMEOUT" /\ ~WaitForResult(t)
        /\ pc[u] = "w_done" /\ WaitForResult(u) /\ semaphore_value >= sp[u]

\* C4: last_progress never decreases, and every step that changes it is taken
\* by the thread that holds the queue mutex.
C4_MonotoneUnderLock ==
    [][/\ last_progress' >= last_progress
       /\ last_progress' # last_progress
            => /\ queue_lock # NoThread
               /\ queue_lock' = queue_lock
               /\ pc[queue_lock] = "s_inc"
               /\ pc'[queue_lock] = "s_read"]_vars

\* last_progress has just been incremented a second time, under the lock
C4_Witness ==
    /\ last_progress = 2
    /\ queue_lock # NoThread
    /\ pc[queue_lock] = "s_read"

\* C5: wait_for holds the queue lock only while it copies the semaphore
\* handle: a thread in the native wait does not hold it, so unless some other
\* thread holds the lock a thread about to lock the queue can do so, and
\* several threads can be in the native wait at once.
C5_WaitOutsideLock ==
    \A t \in Threads :
        pc[t] = "w_native" =>
            /\ queue_lock # t
            /\ \A u \in Threads \ {t} :
                (/\ pc[u] \in {"s_lock", "w_lock"}
                 /\ \A v \in Threads \ {t} : queue_lock # v)
                    => ENABLED (SubmitLock(u) \/ WaitForLock(u))

\* two threads are blocked in the native wait at the same time
C5_Witness ==
    \E t, u \in Threads :
        /\ t # u
        /\ pc[t] = "w_native" /\ pc[u] = "w_native"
        /\ wait_semaphores(semaphore_value, sp[t], timeout_ns[t], device_lost) = "BLOCKED"
        /\ wait_semaphores(semaphore_value, sp[u], timeout_ns[u], device_lost) = "BLOCKED"

\* the claims' own reading of the terms they use
SupportsInlineUniformBlock(phd) ==
    /\ phd.max_inline_uniform_block_size >= PLAIN_DATA_SIZE
    /\ phd.max_descriptor_set_inline_uniform_blocks >= 1
    /\ phd.inline_uniform_block # 0

Succeeded(call) == Called(call) /\ failed_step # call

DeviceLevelObjects == {"device", "memory_manager", "queue", "timeline_semaphore"}

\* C6: bit i of valid_ash_memory_types is set if and only if memory type i is
\* reported and its property flags are a subset of {DEVICE_LOCAL, HOST_VISIBLE,
\* HOST_COHERENT, HOST_CACHED, LAZILY_ALLOCATED}; the bits at indices >=
\* memory_type_count are zero.
C6_ValidityMask ==
    "memory_manager" \in created =>
        /\ \A i \in 0 .. MaxMemTypes + 1 :
            ((valid_ash_memory_types \div (2 ^ i)) % 2 = 1)
                <=> (i < Len(memory_types) /\ memory_types[i + 1] \subseteq {0, 1, 2, 3, 4})
        /\ valid_ash_memory_types < 2 ^ Len(memory_types)

\* type 0 has the unknown PROTECTED bit beside a known one, type 1 is known
C6_Witness ==
    /\ "memory_manager" \in created
    /\ memory_types = << {0, 5}, {1, 2} >>
    /\ valid_ash_memory_types = 2

\* C7: when none of the enumerated physical devices supports inline uniform
\* blocks, init returns NotSupportedError and creates no device-level object.
C7_NoInlineNoDevice ==
    (/\ Succeeded("enumerate_physical_devices")
     /\ \A i \in DOMAIN physical_devices :
            ~SupportsInlineUniformBlock(physical_devices[i]))
        => /\ created \cap DeviceLevelObjects = {}
           /\ ~Called("create_device")
           /\ ~Called("create_semaphore")
           /\ init_pc \in {"find_adapter", "done"}
           /\ init_pc = "done" => init_result = "NotSupportedError"

\* init has returned NotSupportedError on two devices of which the first misses
\* only the inline-uniform-block feature flag
C7_Witness ==
    /\ init_pc = "done"
    /\ init_result = "NotSupportedError"
    /\ Len(physical_devices) = 2
    /\ physical_devices[1] = [CapableDevice EXCEPT !.inline_uniform_block = 0]
    /\ ~SupportsInlineUniformBlock(physical_devices[2])
    /\ inspected = << 1, 2 >>

\* C8: init selects the device at the smallest enumeration index that passes
\* inspect_adapter: the devices before it were inspected and rejected, the
\* devices after it are never inspected, the logical device is created on it,
\* and if no device passes init returns NotSupportedError.
C8_FirstPassingDevice ==
    /\ \A i \in DOMAIN inspected : inspected[i] = i
    /\ Len(inspected) <= Len(physical_devices)
    /\ physical_device # 0 =>
        /\ inspect_adapter(physical_devices[physical_device])
        /\ \A j \in 1 .. physical_device - 1 : ~inspect_adapter(physical_devices[j])
        /\ Len(inspected) = physical_device
    /\ Called("create_device") => physical_device # 0
    /\ (/\ Succeeded("enumerate_physical_devices")
        /\ init_pc # "find_adapter"
        /\ physical_device = 0)
        => /\ \A i \in DOMAIN physical_devices : ~inspect_adapter(physical_devices[i])
           /\ Len(inspected) = Len(physical_devices)
           /\ init_pc = "done"
           /\ init_result = "NotSupportedError"
    /\ (/\ Succeeded("enumerate_physical_devices")
        /\ init_pc # "find_adapter"
        /\ \E i \in DOMAIN physical_devices : inspect_adapter(physical_devices[i]))
        => physical_device # 0

\* the second of two devices is selected after the first was rejected, and
\* init has returned Ok
C8_Witness ==
    /\ init_result = "Ok"
    /\ Len(physical_devices) = 2
    /\ ~inspect_adapter(physical_devices[1])
    /\ physical_device = 2
    /\ inspected = << 1, 2 >>

\* C9: if the debug-utils or the get_physical_device_properties2 instance
\* extension is not among the supported instance extensions, init returns
\* NotSupportedError and never creates the native instance.
C9_MissingExtension ==
    (/\ Succeeded("enumerate_instance_extension_properties")
     /\ \/ DEBUG_UTILS \notin supported_instance_extensions
        \/ GET_PHYSICAL_DEVICE_PROPERTIES2 \notin supported_instance_extensions)
        => /\ ~Called("create_instance")
           /\ "instance" \notin created
           /\ init_pc \in {"check_extensions", "done"}
           /\ init_pc = "done" =>
                /\ init_result = "NotSupportedError"
                /\ failed_step = "required_instance_extension"

\* init has returned NotSupportedError where only the second required extension
\* is missing
C9_Witness ==
    /\ init_pc = "done"
    /\ init_result = "NotSupportedError"
    /\ supported_instance_extensions = {DEBUG_UTILS, PORTABILITY_ENUMERATION}
    /\ calls[Len(calls)] = "enumerate_instance_extension_properties"

EarlyCalls ==
    {"Entry::load", "try_enumerate_instance_version",
     "enumerate_instance_layer_properties",
     "enumerate_instance_extension_properties"}

UnwrappedCalls ==
    {"create_instance", "enumerate_physical_devices", "create_device",
     "create_semaphore"}

\* C10 as stated: every step of init that can fail (loading the entry points,
\* the version query, layer and extension enumeration, instance creation,
\* physical-device enumeration, logical-device creation, timeline-semaphore
\* creation) makes init return NotSupportedError when it fails.
C10_Original ==
    (init_pc = "done" /\ failed_step \in EarlyCalls \cup UnwrappedCalls)
        => init_result = "NotSupportedError"

\* C10, amended: a failure of loading the entry points, of the version query,
\* of layer or extension enumeration, a missing required extension and no
\* passing adapter make init return NotSupportedError; a failure of instance
\* creation, physical-device enumeration, logical-device creation or
\* timeline-semaphore creation makes init panic. Every failure ends init at
\* once, and no call is made twice.
C10_Amended ==
    /\ failed_step # "none" => init_pc = "done"
    /\ failed_step \in EarlyCalls \cup {"required_instance_extension", "find_adapter"}
        => init_result = "NotSupportedError"
    /\ failed_step \in UnwrappedCalls => init_result = "panic"
    /\ failed_step \in EarlyCalls \cup UnwrappedCalls
        => calls[Len(calls)] = failed_step
    /\ init_result = "Ok" => failed_step = "none"
    /\ \A i, j \in DOMAIN calls : calls[i] = calls[j] => i = j

\* the last fallible step, creating the timeline semaphore, has failed
C10_Witness ==
    /\ init_pc = "done"
    /\ failed_step = "create_semaphore"
    /\ init_result = "panic"
    /\ "device" \in created

\* the native objects of encoder e's buffers
DescriptorPoolOf(e, i) == encoders[e].buffers[i].descriptor_pool
RawOf(e, i) == encoders[e].buffers[i].raw

\* C11: create_command_encoder with buffer_count = N returns an encoder with
\* exactly N (command buffer, descriptor pool) pairs; the descriptor pools are
\* pairwise distinct objects, and no descriptor pool serves two command
\* buffers, of this encoder or of any other encoder of the Context.
C11_DistinctDescriptorPools ==
    \A e \in DOMAIN encoders :
        /\ Len(encoders[e].buffers) = encoders[e].buffer_count
        /\ \A i \in DOMAIN encoders[e].buffers :
            /\ native[RawOf(e, i)].kind = "command_buffer"
            /\ native[DescriptorPoolOf(e, i)].kind = "descriptor_pool"
        /\ \A f \in DOMAIN encoders :
            \A i \in DOMAIN encoders[e].buffers, j \in DOMAIN encoders[f].buffers :
                (e # f \/ i # j) =>
                    /\ RawOf(e, i) # RawOf(f, j)
                    /\ DescriptorPoolOf(e, i) # DescriptorPoolOf(f, j)

\* two encoders have been returned, one of them with two buffers or more
C11_Witness ==
    /\ Len(encoders) >= 2
    /\ \E e \in DOMAIN encoders : encoders[e].buffer_count >= 2

\* the objects released for encoder e, in the order of their release
EncoderLog(e) == SelectSeq(released, LAMBDA o : native[o].owner = e)

TeardownPhase(o) ==
    CASE native[o].kind = "command_buffer" -> 1
      [] native[o].kind = "descriptor_pool" -> 2
      [] native[o].kind = "command_pool" -> 3

\* what the loop of destroy_command_encoder releases for encoder e: per buffer
\* the command buffer and then its descriptor pool, the command pool at the end
LoopOrder(e) ==
    LET n == Len(encoders[e].buffers)
    IN  [k \in 1 .. 2 * n + 1 |->
            IF k = 2 * n + 1 THEN encoders[e].pool
            ELSE IF k % 2 = 1 THEN RawOf(e, (k + 1) \div 2)
            ELSE DescriptorPoolOf(e, k \div 2)]

ReleaseCount(o) == Cardinality({k \in DOMAIN released : released[k] = o})

\* C20: when destroy_command_encoder has returned, every command buffer and
\* every descriptor pool made for the encoder was released exactly once, the
\* command pool exactly once and after all of them, no native object made for
\* the encoder is live, and none was released twice.
C20_ReleasedOnce ==
    \A e \in DOMAIN encoders :
        encoders[e].state = "destroyed" =>
            /\ \A o \in DOMAIN native :
                native[o].owner = e =>
                    /\ ~native[o].live
                    /\ native[o].releases = 1
                    /\ ReleaseCount(o) = 1
            /\ EncoderLog(e)[Len(EncoderLog(e))] = encoders[e].pool

\* every encoder of the run has been destroyed, one of them had two buffers
C20_Witness ==
    /\ Len(encoders) >= 2
    /\ \A e \in DOMAIN encoders : encoders[e].state = "destroyed"
    /\ \E e \in DOMAIN encoders : encoders[e].buffer_count >= 2

\* the four gates of the claim, read off a physical device's properties
PassesAllGates(phd) ==
    /\ phd.max_inline_uniform_block_size >= PLAIN_DATA_SIZE
    /\ phd.max_descriptor_set_inline_uniform_blocks >= 1
    /\ phd.inline_uniform_block = 1
    /\ phd.timeline_semaphore = 1

\* C18: inspect_adapter accepts a physical device if and only if its inline
\* uniform block size is at least PLAIN_DATA_SIZE, it has at least one inline
\* uniform block per descriptor set, and the inline_uniform_block and the
\* timeline_semaphore features are enabled; a rejected device does not end
\* the enumeration, the next device is inspected.
C18_AcceptIffAllGates ==
    /\ \A i \in DOMAIN inspected :
        (physical_device = inspected[i]) <=> PassesAllGates(physical_devices[inspected[i]])
    /\ (/\ inspected # << >>
        /\ physical_device = 0
        /\ Len(inspected) < Len(physical_devices))
        => /\ init_pc = "find_adapter"
           /\ init_result = "pending"
           /\ ENABLED FindAdapter

\* a device failing the timeline-semaphore gate alone was rejected, and the
\* device after it was inspected and accepted
C18_Witness ==
    /\ inspected = << 1, 2 >>
    /\ physical_devices[1] = [CapableDevice EXCEPT !.timeline_semaphore = 0]
    /\ physical_device = 2
    /\ PassesAllGates(physical_devices[2])

\* C19: the logical device is created with exactly the three required
\* extensions, plus the portability-subset extension if and only if the
\* portability-enumeration instance extension was reported as supported; in
\* exactly that case the instance was created with the portability-enumeration
\* extension and the ENUMERATE_PORTABILITY flag.
C19_PortabilityExtensions ==
    LET portable == PORTABILITY_ENUMERATION \in supported_instance_extensions
        enabled == {instance_extensions[i] : i \in DOMAIN instance_extensions}
    IN  /\ Called("create_device") =>
            /\ {"VK_EXT_inline_uniform_block", "VK_KHR_timeline_semaphore",
                "VK_KHR_descriptor_update_template"} \subseteq device_extensions
            /\ Cardinality(device_extensions) = IF portable THEN 4 ELSE 3
            /\ (PORTABILITY_SUBSET \in device_extensions) <=> portable
        /\ Called("create_instance") =>
            /\ (PORTABILITY_ENUMERATION \in enabled) <=> portable
            /\ ("ENUMERATE_PORTABILITY_KHR" \in create_flags) <=> portable
            /\ Len(instance_extensions) = IF portable THEN 3 ELSE 2

\* the device was created on a machine that reports portability enumeration
C19_Witness ==
    /\ "device" \in created
    /\ PORTABILITY_ENUMERATION \in supported_instance_extensions
    /\ PORTABILITY_SUBSET \in device_extensions

\* the indices at which block b sits in the table
IndicesOf(b) == {h \in SlabHandles : SlabEntry(h) = b}

\* C13: the handle returned by a successful allocation is the index of the
\* block in the slot table; a live handle keeps denoting the same block until
\* that handle itself is freed (a free of another handle never moves or
\* renumbers it), and two live blocks never share a handle. A freed index may
\* be returned again by a later allocation (the witness).
C13_StableHandles ==
    /\ [](/\ (mem_last.op = "allocate" /\ mem_last.outcome = "ok")
                => /\ mem_last.handle \in SlabHandles
                   /\ SlabEntry(mem_last.handle) = mem_last.block
          /\ \A b \in live_blocks : Cardinality(IndicesOf(b)) = 1
          /\ \A h \in SlabHandles :
                SlabEntry(h) # Vacant => SlabEntry(h) \in live_blocks)
    /\ [][\A h \in SlabHandles :
            (SlabEntry(h) # Vacant /\ (Len(slab') <= h \/ slab'[h + 1] # SlabEntry(h)))
                => /\ mem_last'.op = "free"
                   /\ mem_last'.handle = h
                   /\ mem_last'.outcome = "ok"
                   /\ h < Len(slab')
                   /\ slab'[h + 1] = Vacant]_vars

\* a block sits at index 0 after another block was allocated there and freed,
\* while a second block is live at index 1
C13_Witness ==
    /\ Len(slab) = 2
    /\ SlabEntry(0) # Vacant
    /\ SlabEntry(1) # Vacant
    /\ \E r \in issued : r.handle = 0 /\ r.block # SlabEntry(0)
    /\ mem_last.op = "allocate"
    /\ mem_last.handle = 0

\* C14: a free through a handle whose block was already freed, also after the
\* index was handed out again, is a fatal contract violation: it never
\* succeeds, and never removes a block other than the handle's own.
C14_StaleHandleIsFatal ==
    (mem_last.op = "free" /\ mem_last.outcome = "ok")
        => mem_last.removed = mem_last.block

RECURSIVE SumOfSizes(_, _)
\* s[1] + .. + s[n]
SumOfSizes(s, n) == IF n = 0 THEN 0 ELSE SumOfSizes(s, n - 1) + s[n]

\* C15: in a created descriptor-set layout with bindings of declared sizes
\* [s0, s1, ...], template_offsets[i] is s0 + ... + s(i-1) for every binding i:
\* 0 for the first binding, no gaps, no reordering, so the bindings occupy
\* disjoint consecutive ranges of the flat update buffer.
C15_TemplateOffsets ==
    layout_pc = "created" =>
        /\ Len(template_offsets) = Len(layout_bindings)
        /\ \A i \in DOMAIN layout_bindings :
            template_offsets[i] = SumOfSizes(layout_bindings, i - 1)
        /\ \A i, j \in DOMAIN layout_bindings :
            i < j => template_offsets[i] + layout_bindings[i] <= template_offsets[j]

\* a layout of three bindings of unequal sizes has been created
C15_Witness ==
    /\ layout_pc = "created"
    /\ Len(layout_bindings) >= 3
    /\ layout_bindings[1] # layout_bindings[2]
    /\ layout_bindings[2] # layout_bindings[3]

\* C16: SyncPoints are freely copyable: the SyncPoint returned by one submit
\* can be passed to wait_for any number of times and by several threads, so
\* after wait_for returned false on a timeout the caller can poll the same
\* SyncPoint again.
C16_CanPollAgain ==
    \A i \in DOMAIN sync_points :
        sync_points[i].result = "false" =>
            \E t \in Threads : sync_points[i].holder = t

C21_FalseOnlyOnTimeout ==
    \A t \in Threads :
        (pc[t] = "w_done" /\ ~WaitForResult(t)) => vk_result[t] = "TIMEOUT"

\* C25: command buffers reach the native queue in the order of their progress
\* values: in no interleaving of submit calls is a submission signalling v
\* handed to the native queue after one signalling a value greater than v.
C25_NativeQueueInOrder ==
    \A i, j \in DOMAIN native_queue :
        i < j => native_queue[i] < native_queue[j]

\* two threads have each handed a submission to the native queue, the second
\* still holds the lock
C25_Witness ==
    /\ Len(native_queue) = 2
    /\ Len(submissions) = 2
    /\ submissions[1].thread # submissions[2].thread
    /\ pc[submissions[2].thread] = "s_return"

\* some submit call is between its increment and its queue_submit
SubmitInFlight == \E t \in Threads : pc[t] \in {"s_read", "s_submit"}

\* C26 as stated: in every reachable state 0 <= semaphore value <=
\* last_progress and last_progress is the number of submissions handed to the
\* native queue so far; the n-th submit returns SyncPoint{progress: n} and no
\* SyncPoint carries progress 0.
C26_Original ==
    /\ 0 <= semaphore_value
    /\ semaphore_value <= last_progress
    /\ last_progress = Len(native_queue)
    /\ \A i \in DOMAIN submissions :
        submissions[i].progress # 0 => submissions[i].progress = i
    /\ \A t \in Threads : pc[t] = "s_done" => progress[t] >= 1

\* C26, amended: in every reachable state 0 <= semaphore value <= number of
\* submissions handed to the native queue <= last_progress; last_progress is
\* that number while no submit call is between its increment and its
\* queue_submit and no queue_submit has failed, and one more otherwise (a
\* failed queue_submit leaves it one ahead for good, with the mutex poisoned).
\* The n-th submit to take the lock returns SyncPoint{progress: n}, and no
\* SyncPoint carries progress 0.
C26_Amended ==
    /\ 0 <= semaphore_value
    /\ semaphore_value <= Len(native_queue)
    /\ Len(native_queue) <= last_progress
    /\ last_progress =
        IF SubmitInFlight \/ queue_poisoned
        THEN Len(native_queue) + 1
        ELSE Len(native_queue)
    /\ \A i \in DOMAIN submissions :
        submissions[i].progress # 0 => submissions[i].progress = i
    /\ \A t \in Threads : pc[t] = "s_done" => progress[t] >= 1

\* two submissions were handed over and the first has been signalled; a third
\* queue_submit cannot have failed
C26_Witness ==
    /\ Len(native_queue) = 2
    /\ semaphore_value = 1
    /\ last_progress = 2
    /\ queue_lock = NoThread
    /\ ~queue_poisoned

RECURSIVE RemainderFrom(_, _, _)
\* the remainder of (limbs i and above of a) divided by d
RemainderFrom(a, d, i) ==
    IF i > Len(a) THEN 0
    ELSE (RemainderFrom(a, d, i + 1) * LimbBase + a[i]) % d

\* a divided by a small d
DivSmall(a, d) ==
    [i \in DOMAIN a |-> (RemainderFrom(a, d, i + 1) * LimbBase + a[i]) \div d]

IsZero(a) == \A i \in DOMAIN a : a[i] = 0

RECURSIVE Decimal(_)
\* the decimal digits of a, lowest first
Decimal(a) ==
    IF IsZero(a) THEN << >>
    ELSE << RemainderFrom(a, 10, 1) >> \o Decimal(DivSmall(a, 10))

\* a < b for limb sequences of one length
LessWide(a, b) ==
    \E i \in DOMAIN a :
        /\ a[i] < b[i]
        /\ \A j \in DOMAIN a : j > i => a[j] = b[j]

\* C27: for every u32 number of milliseconds map_timeout returns exactly
\* millis * 1,000,000 as a u64, without overflow or wrap-around (in decimal,
\* the digits of millis followed by six zeros; no limb of the full product
\* lies beyond the fourth), and it is strictly monotone in millis.
C27_MapTimeoutExact ==
    /\ \A i \in DOMAIN timeout_calls :
        LET millis == timeout_calls[i].millis
            nanos == timeout_calls[i].nanos
        IN  /\ Len(nanos) = 4
            /\ Decimal(nanos) =
                IF IsZero(millis) THEN << >>
                ELSE << 0, 0, 0, 0, 0, 0 >> \o Decimal(millis)
            /\ WrappingMul(Resize(millis, 4), NanosPerMilli, 6) = Resize(nanos, 6)
            /\ (millis[2] = 0 /\ millis[1] <= 2)
                => nanos = << map_timeout(millis[1]) % LimbBase,
                              map_timeout(millis[1]) \div LimbBase, 0, 0 >>
    /\ Len(timeout_calls) = 2 =>
        (LessWide(timeout_calls[1].millis, timeout_calls[2].millis)
            <=> LessWide(timeout_calls[1].nanos, timeout_calls[2].nanos))

\* map_timeout was called on 2^32 - 1 and on 4295, whose product does not
\* fit 32 bits
C27_Witness ==
    /\ Len(timeout_calls) = 2
    /\ timeout_calls[1].millis = << LimbBase - 1, LimbBase - 1 >>
    /\ timeout_calls[2].millis = << 4295, 0 >>

\* C22: map_subresource_range copies base_mip_level and base_array_layer
\* unchanged, maps an absent mip_level_count to REMAINING_MIP_LEVELS and an
\* absent array_layer_count to REMAINING_ARRAY_LAYERS, and a present count n
\* to exactly n.
C22_RangeCopied ==
    \A i \in DOMAIN range_call :
        LET subresources == range_call[i].subresources
            range == range_call[i].range
        IN  /\ range.base_mip_level = << subresources.base_mip_level, 0 >>
            /\ range.base_array_layer = << subresources.base_array_layer, 0 >>
            /\ subresources.mip_level_count = None
                => range.level_count = << 65535, 65535 >>
            /\ subresources.array_layer_count = None
                => range.layer_count = << 65535, 65535 >>
            /\ subresources.mip_level_count # None
                => range.level_count = << subresources.mip_level_count, 0 >>
            /\ subresources.array_layer_count # None
                => range.layer_count = << subresources.array_layer_count, 0 >>

\* map_subresource_range was called with different bases, one count absent
\* and one present
C22_Witness ==
    /\ range_call # << >>
    /\ range_call[1].subresources.base_mip_level = 1
    /\ range_call[1].subresources.base_array_layer = 2
    /\ range_call[1].subresources.mip_level_count = None
    /\ range_call[1].subresources.array_layer_count = 2

\* C23: map_aspects returns exactly the corresponding native bits: COLOR iff
\* the set is a colour aspect set (it has neither DEPTH nor STENCIL), DEPTH iff
\* it contains DEPTH, STENCIL iff it contains STENCIL; a depth-only set maps
\* to DEPTH only.
C23_AspectsExact ==
    \A i \in DOMAIN aspects_call :
        LET aspects == aspects_call[i].aspects
            flags == aspects_call[i].flags
        IN  /\ "COLOR" \in flags <=> (1 \notin aspects /\ 2 \notin aspects)
            /\ "DEPTH" \in flags <=> 1 \in aspects
            /\ "STENCIL" \in flags <=> 2 \in aspects

\* C28: Engine::update(dt) always terminates: the catch-up loop performs only
\* finitely many Physics::step calls. time_ahead takes finitely many values
\* and no iteration raises it, so the loop ends exactly when every iteration
\* that is entered lowers time_ahead; an iteration that leaves it as it was
\* is repeated for ever.
C28_LoopDescends ==
    (update_pc = "loop" /\ time_ahead >= time_step)
        => RoundFloat(time_ahead - time_step) < time_ahead

\* the mutex a thread is waiting for, with its holder
WaitsFor(t) ==
    IF lock_pc[t] \in {"s_lock", "w_lock"} THEN queue_lock
    ELSE IF lock_pc[t] \in {"a_lock", "f_lock"} THEN memory_lock
    ELSE NoThread

\* C24: the Memory Manager lock and the Queue lock are independent: no thread
\* ever holds both, only a Memory Manager operation holds the memory lock
\* (submit and wait_for never take it), and no interleaving deadlocks: every
\* thread inside an operation can take a step, or waits for a mutex whose
\* holder can take a step.
C24_LocksIndependent ==
    \A t \in Threads :
        /\ ~(queue_lock = t /\ memory_lock = t)
        /\ memory_lock = t <=> lock_pc[t] \in {"a_held", "f_held"}
        /\ queue_lock = t <=> lock_pc[t] \in {"s_held", "w_held"}
        /\ lock_pc[t] \notin {"idle", "panicked"}
            => \/ ENABLED LockStep(t)
               \/ /\ WaitsFor(t) \in Threads
                  /\ ENABLED LockStep(WaitsFor(t))

\* one thread holds the queue mutex inside submit while another holds the
\* memory mutex inside free
C24_Witness ==
    \E t, u \in Threads :
        /\ lock_pc[t] = "s_held" /\ queue_lock = t
        /\ lock_pc[u] = "f_held" /\ memory_lock = u

\* C29: a requested accumulation reset is never lost: need_accumulation_reset
\* starts true, and once true it goes back to false only in a render call in
\* which no load task is pending and which passes it as true to
\* renderer.prepare.
C29_ResetNeverLost ==
    [][(need_accumulation_reset /\ ~need_accumulation_reset')
        => /\ render_pc = "scene"
           /\ load_tasks = 0
           /\ prepare_reset' = "reset"
           /\ frame_log' = frame_log \o << "build_scene", "prepare" >>]_vars

\* a render call skipped the scene while a reset was requested, and a later
\* call has passed the request to prepare and cleared it
C29_Witness ==
    /\ render_pc = "present"
    /\ reset_deferred
    /\ prepare_reset = "reset"
    /\ ~need_accumulation_reset

\* the position of a call in the log of the latest render, 0 if it was not made
LogIndex(call) ==
    IF \E i \in DOMAIN frame_log : frame_log[i] = call
    THEN CHOOSE i \in DOMAIN frame_log : frame_log[i] = call
    ELSE 0

\* C30: when the requested size differs from the renderer's screen size,
\* gpu_context.resize comes only after wait_for_previous_frame, and
\* renderer.resize_screen follows in the same render call, after begin_frame
\* and before the scene is built; no frame is built with a renderer size
\* different from the surface size.
C30_TwoPartResize ==
    /\ LogIndex("resize") # 0
        => /\ LogIndex("wait_for_previous_frame") # 0
           /\ LogIndex("wait_for_previous_frame") < LogIndex("resize")
    /\ (LogIndex("resize") # 0 /\ render_pc \notin {"surface", "begin_frame"})
        => /\ LogIndex("begin_frame") < LogIndex("resize_screen")
           /\ LogIndex("resize") < LogIndex("begin_frame")
    /\ LogIndex("resize_screen") # 0 => LogIndex("resize") # 0
    /\ LogIndex("build_scene") # 0
        => /\ LogIndex("resize_screen") < LogIndex("build_scene")
           /\ LogIndex("begin_frame") < LogIndex("build_scene")
           /\ screen_size = surface_size
           /\ screen_size = new_render_size
    /\ render_pc \notin {"idle", "surface"} => surface_size = new_render_size
    /\ render_pc \in {"retain", "scene", "present"} => screen_size = surface_size

\* a render call that resized the surface and the screen and then built the
\* scene
C30_Witness ==
    /\ render_pc = "present"
    /\ frame_log = << "wait_for_previous_frame", "resize", "begin_frame",
                      "resize_screen", "build_scene", "prepare" >>
    /\ screen_size = 2
    /\ surface_size = 2

====
